---- MODULE Spec2Model ----
(***************************************************************************)
(* A model of the JobScanner service (Jeffawe/JobScanner):                 *)
(*   - the parser dispatcher        (known_sites/base_parsers.py)          *)
(*   - the site parsers             (known_sites/linkedin.py, indeed.py)   *)
(*   - the career page resolver     (site_searcher/site_finder.py)         *)
(*   - the /analyze request handler (app.py) with the generic analyzer     *)
(*     (scanner.py)                                                        *)
(* Python strings are TLA+ strings; the string functions the code calls    *)
(* (lower, strip, in, re.sub, urlparse) are computed character by          *)
(* character.  Python's None is the value None below; confidence values    *)
(* are kept in hundredths (0.95 is 95).                                    *)
(***************************************************************************)
EXTENDS Integers, Sequences, FiniteSets, TLC

VARIABLES
    parsers,     \* JobParserFactory.parsers: the registered parsers, in order
    d_call,      \* the get_parser calls: their url and what each call returned
    p_call,      \* the parse call: variant, page, result, methods tried
    store,       \* the career_pages table: a set of rows
    now,         \* the clock, in days
    ticks,       \* how often the clock has advanced
    f_call,      \* the latest find_career_page call and its outcome
    f_prev,      \* per company name: when the entry was verified that the
                 \* latest call with this name that returned a result returned
                 \* (a set, empty as long as no such call returned a result)
    cache,       \* the redis cache of /analyze: the client and its entries
    a_call,      \* the latest /analyze request and its outcome
    requests,    \* how many /analyze requests have been handled
    s_call,      \* the JobAnalyzer.analyze call: its inputs and its result
    b_call       \* the _find_best_career_url call: its inputs and its result

vars == <<parsers, d_call, p_call, store, now, ticks, f_call, f_prev,
          cache, a_call, requests, s_call, b_call>>

-----------------------------------------------------------------------------
(* Python values and string functions                                      *)

\* Python's None, where the code uses an Optional[str]
None == "<None>"

\* Python truthiness of an Optional[str]: None and "" are falsy
Truthy(s) == s # None /\ s # ""

\* an assignment  name = value  and the statements after it: body(name);
\* the value is computed before the statements run
Let(value, body(_)) == CHOOSE r \in {body(name) : name \in {value}} : TRUE

CharAt(s, i) == SubSeq(s, i, i)

\* Python's `sub in s`
Contains(s, sub) ==
    \E i \in 1..(Len(s) - Len(sub) + 1) : SubSeq(s, i, i + Len(sub) - 1) = sub

UpperChars == "ABCDEFGHIJKLMNOPQRSTUVWXYZ"
LowerChars == "abcdefghijklmnopqrstuvwxyz"
DigitChars == "0123456789"

LowerChar(c) ==
    IF Contains(UpperChars, c)
    THEN LET i == CHOOSE k \in 1..Len(UpperChars) : CharAt(UpperChars, k) = c
         IN  CharAt(LowerChars, i)
    ELSE c

\* str.lower()
RECURSIVE Lower(_)
Lower(s) ==
    IF Len(s) = 0 THEN ""
    ELSE IF Len(s) = 1 THEN LowerChar(s)
    ELSE Lower(SubSeq(s, 1, Len(s) \div 2)) \o Lower(SubSeq(s, Len(s) \div 2 + 1, Len(s)))

IsSpace(c) == c \in {" ", "\t", "\n", "\r"}

\* str.strip()
RECURSIVE LStrip(_)
LStrip(s) == IF Len(s) > 0 /\ IsSpace(CharAt(s, 1)) THEN LStrip(SubSeq(s, 2, Len(s))) ELSE s
RECURSIVE RStrip(_)
RStrip(s) == IF Len(s) > 0 /\ IsSpace(CharAt(s, Len(s))) THEN RStrip(SubSeq(s, 1, Len(s) - 1)) ELSE s
Strip(s) == LStrip(RStrip(s))

\* the regex class \w
IsWordChar(c) == Len(c) = 1 /\ (Contains(UpperChars, c) \/ Contains(LowerChars, c)
                                \/ Contains(DigitChars, c) \/ c = "_")

\* str.find(c, from): the first index >= from of a character of `chars`, or 0
FirstOf(s, chars, from) ==
    LET hits == {i \in from..Len(s) : Contains(chars, CharAt(s, i))}
    IN  IF hits = {} THEN 0 ELSE CHOOSE i \in hits : \A j \in hits : i <= j

-----------------------------------------------------------------------------
(* urllib.parse.urlparse(url).netloc                                       *)

SchemeChars == LowerChars \o UpperChars \o DigitChars \o "+-."

\* urlsplit: a leading "<scheme>:" is cut off when it is a letter followed by
\* scheme characters
AfterScheme(url) ==
    LET i == FirstOf(url, ":", 1)
    IN  IF i > 1
           /\ Contains(LowerChars \o UpperChars, CharAt(url, 1))
           /\ \A k \in 1..(i - 1) : Contains(SchemeChars, CharAt(url, k))
        THEN SubSeq(url, i + 1, Len(url))
        ELSE url

\* urlsplit: after "//" the network location runs to the first of / ? #
\* (it keeps userinfo "user@" and ":port"); without "//" it is empty
Netloc(url) ==
    LET rest == AfterScheme(url)
    IN  IF Len(rest) >= 2 /\ SubSeq(rest, 1, 2) = "//"
        THEN LET d == FirstOf(rest, "/?#", 3)
             IN  SubSeq(rest, 3, IF d = 0 THEN Len(rest) ELSE d - 1)
        ELSE ""

-----------------------------------------------------------------------------
(* known_sites: the dispatcher                                             *)

\* the domain each parser variant looks for
SiteDomain(parser) == IF parser = "LinkedInParser" THEN "linkedin.com" ELSE "indeed.com"

\* LinkedInParser.can_parse / IndeedParser.can_parse
can_parse(parser, url) ==
    IF ~Truthy(url) THEN FALSE
    ELSE Contains(Lower(Netloc(url)), SiteDomain(parser))

\* JobParserFactory.__init__
RegisteredParsers == <<"LinkedInParser", "IndeedParser">>

\* JobParserFactory.get_parser: the first parser of the list that can parse url
RECURSIVE FirstParser(_, _, _)
FirstParser(list, url, i) ==
    IF i > Len(list) THEN None
    ELSE IF can_parse(list[i], url) THEN list[i]
    ELSE FirstParser(list, url, i + 1)

get_parser(list, url) ==
    IF ~Truthy(url) THEN None ELSE FirstParser(list, url, 1)

\* JobParserFactory.can_parse_format
can_parse_format(list, url) == get_parser(list, url) # None

-----------------------------------------------------------------------------
(* A parsed page (the BeautifulSoup tree the parsers query)                *)
(*   jsonld   : the <script type="application/ld+json"> blocks, in order   *)
(*   elements : the elements of the body, in document order; `sels` are    *)
(*              the CSS selectors an element matches, `text` its text      *)
(*   metas    : the <meta> tags, in order                                  *)
(*   title    : the text of <title>, or None                               *)
(*   body     : the remaining text of the page                             *)

\* JSON values, as json.loads returns them
JStr(s)  == [t |-> "str", s |-> s]
JObj(f)  == [t |-> "obj", f |-> f]
JList(l) == [t |-> "list", l |-> l]
JNum     == [t |-> "num"]

\* a script block: without a string, with text that is no JSON, or with JSON
EmptyBlock   == [kind |-> "empty"]
InvalidBlock == [kind |-> "invalid"]
JsonBlock(v) == [kind |-> "json", data |-> v]

\* what a helper returns when it raised instead of returning
Raised == "<raised>"

\* soup.select_one(selectors): the first element matching one of them
select_one(page, sels) ==
    LET hits == {i \in 1..Len(page.elements) : page.elements[i].sels \cap sels # {}}
    IN  IF hits = {} THEN None
        ELSE page.elements[CHOOSE i \in hits : \A j \in hits : i <= j].text

\* soup.get_text(): the text of the title, of the elements and of the body
RECURSIVE ElementsText(_, _)
ElementsText(els, i) ==
    IF i > Len(els) THEN "" ELSE els[i].text \o ElementsText(els, i + 1)

get_text(page) ==
    (IF page.title = None THEN "" ELSE page.title)
        \o ElementsText(page.elements, 1) \o page.body

\* LinkedInParser._get_nested_value: follow the keys of a dotted path
RECURSIVE get_nested_value(_, _, _)
get_nested_value(data, path, i) ==
    IF i > Len(path) THEN data
    ELSE IF data.t = "obj" /\ path[i] \in DOMAIN data.f
         THEN get_nested_value(data.f[path[i]], path, i + 1)
         ELSE [t |-> "none"]

company_paths == <<
    <<"hiringOrganization", "name">>,
    <<"hiringOrganization", "legalName">>,
    <<"employmentType", "hiringOrganization", "name">>,
    <<"publisher", "name">>,
    <<"author", "name">>,
    <<"organization", "name">>,
    <<"company", "name">>,
    <<"employer", "name">> >>

direct_keys == <<"companyName", "company", "employer", "organization">>

\* the second loop of _extract_company_from_json_object: the first direct key
\* holding a string or an object with a name decides (x.strip() raises when
\* the name is no string)
RECURSIVE FromDirectKeys(_, _)
FromDirectKeys(data, i) ==
    IF i > Len(direct_keys) THEN None
    ELSE LET key == direct_keys[i] IN
         IF key \in DOMAIN data.f /\ data.f[key].t = "str"
         THEN Strip(data.f[key].s)
         ELSE IF key \in DOMAIN data.f /\ data.f[key].t = "obj"
                 /\ "name" \in DOMAIN data.f[key].f
         THEN IF data.f[key].f["name"].t = "str"
              THEN Strip(data.f[key].f["name"].s) ELSE Raised
         ELSE FromDirectKeys(data, i + 1)

\* the first loop: the first path holding a non-blank string
RECURSIVE FromPaths(_, _)
FromPaths(data, i) ==
    IF i > Len(company_paths) THEN FromDirectKeys(data, 1)
    ELSE LET value == get_nested_value(data, company_paths[i], 1) IN
         IF value.t = "str" /\ Len(Strip(value.s)) > 0
         THEN Strip(value.s)
         ELSE FromPaths(data, i + 1)

\* LinkedInParser._extract_company_from_json_object
extract_company_from_json_object(data) == FromPaths(data, 1)

\* the items of a JSON-LD array: the first object giving a name decides
RECURSIVE FromJsonList(_, _)
FromJsonList(l, i) ==
    IF i > Len(l) THEN None
    ELSE IF l[i].t = "obj"
         THEN LET c == extract_company_from_json_object(l[i]) IN
              IF c = Raised THEN Raised
              ELSE IF Truthy(c) THEN c
              ELSE FromJsonList(l, i + 1)
         ELSE FromJsonList(l, i + 1)

RECURSIVE FromScripts(_, _)
FromScripts(blocks, i) ==
    IF i > Len(blocks) THEN None
    ELSE IF blocks[i].kind # "json" THEN FromScripts(blocks, i + 1)
    ELSE LET data == blocks[i].data
             c    == IF data.t = "obj" THEN extract_company_from_json_object(data)
                     ELSE IF data.t = "list" THEN FromJsonList(data.l, 1)
                     ELSE None
         IN  IF c = Raised THEN Raised
             ELSE IF Truthy(c) THEN c
             ELSE FromScripts(blocks, i + 1)

\* LinkedInParser._extract_from_json_ld: an exception ends it with None
extract_from_json_ld(page) ==
    LET c == FromScripts(page.jsonld, 1) IN IF c = Raised THEN None ELSE c

-----------------------------------------------------------------------------
(* Regular-expression helpers                                              *)

\* whether the literal `lit` stands at index i of s
MatchesAt(s, i, lit) ==
    i >= 1 /\ i + Len(lit) - 1 <= Len(s) /\ SubSeq(s, i, i + Len(lit) - 1) = lit

\* \s* from index i: the index of the first character that is no whitespace
RECURSIVE SkipWs(_, _)
SkipWs(s, i) == IF i <= Len(s) /\ IsSpace(CharAt(s, i)) THEN SkipWs(s, i + 1) ELSE i

\* the start of the whitespace run that ends just before index i
RECURSIVE BackWs(_, _)
BackWs(s, i) == IF i > 1 /\ IsSpace(CharAt(s, i - 1)) THEN BackWs(s, i - 1) ELSE i

MinOf(S) == CHOOSE i \in S : \A j \in S : i <= j

\* `.*$` from index k: nothing but the end of the string, or its final newline,
\* may follow on the line
LineEndsAfter(s, k) ==
    LET nl == FirstOf(s, "\n", k) IN nl = 0 \/ nl = Len(s)

\* re.sub(r'\s*<sep>\s*LinkedIn.*$', '', s)
CutSiteSuffix(s, sep) ==
    LET cands == {i \in 1..Len(s) :
                    /\ CharAt(s, i) = sep
                    /\ MatchesAt(s, SkipWs(s, i + 1), "LinkedIn")
                    /\ LineEndsAfter(s, SkipWs(s, i + 1) + 8)}
    IN  IF cands = {} THEN s
        ELSE SubSeq(s, 1, BackWs(s, MinOf(cands)) - 1)
                \o (IF CharAt(s, Len(s)) = "\n" THEN "\n" ELSE "")

\* re.search(r'-\s*([^|]+?)\s*\|\s*LinkedIn', t): group 1 stripped, or None
TitleCompany(t) ==
    LET bar(i)  == FirstOf(t, "|", i + 1)
        dashes  == {i \in 1..Len(t) :
                      /\ CharAt(t, i) = "-"
                      /\ bar(i) > i + 1
                      /\ MatchesAt(t, SkipWs(t, bar(i) + 1), "LinkedIn")}
    IN  IF dashes = {} THEN None
        ELSE LET i == MinOf(dashes) IN Strip(SubSeq(t, i + 1, bar(i) - 1))

\* where the label of a text pattern ends when it starts at index i of the
\* lower-cased text l (0: it does not start there); "hiring company:" allows
\* any whitespace between its two words
LabelEnd(l, i, label) ==
    IF label = "hiring company:"
    THEN IF MatchesAt(l, i, "hiring") /\ SkipWs(l, i + 6) > i + 6
            /\ MatchesAt(l, SkipWs(l, i + 6), "company:")
         THEN SkipWs(l, i + 6) + 8 ELSE 0
    ELSE IF MatchesAt(l, i, label) THEN i + Len(label) ELSE 0

\* re.findall(r'(?i)<label>\s*([^\n\r,]+)', text) from index pos on: the
\* captured values that are not blank, in order
RECURSIVE FindLabelled(_, _, _)
FindLabelled(text, label, pos) ==
    LET l    == Lower(text)
        hits == {i \in pos..Len(text) : LabelEnd(l, i, label) # 0}
    IN  IF hits = {} THEN <<>>
        ELSE LET i == MinOf(hits)
                 j == SkipWs(text, LabelEnd(l, i, label))
             IN  IF j <= Len(text) /\ CharAt(text, j) # ","
                 THEN LET e    == FirstOf(text, "\n\r,", j)
                          endc == IF e = 0 THEN Len(text) ELSE e - 1
                      IN  <<SubSeq(text, j, endc)>> \o FindLabelled(text, label, endc + 1)
                 ELSE FindLabelled(text, label, LabelEnd(l, i, label))

-----------------------------------------------------------------------------
(* known_sites/linkedin.py: the company name                               *)

company_selectors == <<
    "[data-test-id=\"job-details-header-company-name\"]",
    "[data-test-id=\"company-name\"]",
    ".job-details-jobs-unified-top-card__company-name a",
    ".jobs-unified-top-card__company-name a",
    ".jobs-unified-top-card__company-name",
    ".job-details__company-link",
    ".jobs-company-name",
    "[data-tracking-control-name=\"public_jobs_topcard-org-name\"]",
    "[data-tracking-control-name=\"public_jobs_topcard_org_name\"]",
    ".topcard__org-name-redirect",
    ".job-details-jobs-unified-top-card__primary-description-container a",
    "[class*=\"company-name\"]",
    "[class*=\"employer-name\"]",
    "[data-test*=\"company\"]",
    "[data-testid*=\"company\"]" >>

\* LinkedInParser._extract_from_css_selectors: the first selector whose first
\* element has a text of 2 to 99 characters
RECURSIVE FromSelectors(_, _)
FromSelectors(page, i) ==
    IF i > Len(company_selectors) THEN None
    ELSE LET element == select_one(page, {company_selectors[i]})
             text    == IF element = None THEN "" ELSE Strip(element)
         IN  IF element # None /\ Truthy(text) /\ Len(text) > 1 /\ Len(text) < 100
             THEN text
             ELSE FromSelectors(page, i + 1)

extract_from_css_selectors(page) == FromSelectors(page, 1)

meta_selectors == <<
    "meta[property=\"og:site_name\"]",
    "meta[name=\"author\"]",
    "meta[property=\"article:author\"]",
    "meta[name=\"company\"]",
    "meta[property=\"og:title\"]" >>

\* soup.select_one(<meta selector>).get('content', ''): None without such a tag
MetaContent(page, sel) ==
    LET hits == {i \in 1..Len(page.metas) : page.metas[i].sel = sel}
    IN  IF hits = {} THEN None ELSE page.metas[MinOf(hits)].content

RECURSIVE FromMetas(_, _)
FromMetas(page, i) ==
    IF i > Len(meta_selectors) THEN None
    ELSE LET content == MetaContent(page, meta_selectors[i])
             cleaned == CutSiteSuffix(CutSiteSuffix(content, "|"), "-")
         IN  IF Truthy(content) /\ Len(content) > 1 /\ Len(content) < 100
                /\ Truthy(Strip(cleaned))
             THEN Strip(cleaned)
             ELSE FromMetas(page, i + 1)

\* LinkedInParser._extract_from_meta_tags: the meta tags, then the page title
extract_from_meta_tags(page) ==
    LET m == FromMetas(page, 1) IN
    IF m # None THEN m
    ELSE IF page.title = None THEN None
    ELSE LET company == TitleCompany(Strip(page.title))
         IN  IF Truthy(company) /\ Len(company) > 1 THEN company ELSE None

text_patterns == <<"company:", "employer:", "organization:", "hiring company:">>

noise_words == {"linkedin", "job", "career", "position"}

\* the matches of one pattern, in order: the first acceptable one
RECURSIVE FirstAcceptable(_, _)
FirstAcceptable(matches, k) ==
    IF k > Len(matches) THEN None
    ELSE LET match == Strip(matches[k])
         IN  IF Truthy(match) /\ Len(match) > 1 /\ Len(match) < 100
                /\ ~\E word \in noise_words : Contains(Lower(match), word)
             THEN match
             ELSE FirstAcceptable(matches, k + 1)

RECURSIVE FromPatterns(_, _)
FromPatterns(page_text, i) ==
    IF i > Len(text_patterns) THEN None
    ELSE LET m == FirstAcceptable(FindLabelled(page_text, text_patterns[i], 1), 1)
         IN  IF m # None THEN m ELSE FromPatterns(page_text, i + 1)

\* LinkedInParser._extract_from_text_patterns
extract_from_text_patterns(page) == FromPatterns(get_text(page), 1)

\* the four methods of _extract_company_name, in the order it calls them
company_methods == <<"json_ld", "css_selectors", "meta_tags", "text_patterns">>

CompanyMethod(m, page) ==
    CASE m = "json_ld"       -> extract_from_json_ld(page)
      [] m = "css_selectors" -> extract_from_css_selectors(page)
      [] m = "meta_tags"     -> extract_from_meta_tags(page)
      [] m = "text_patterns" -> extract_from_text_patterns(page)

\* LinkedInParser._extract_company_name from method i on: the name found and
\* the methods that were called
RECURSIVE CompanyChain(_, _, _)
CompanyChain(page, i, tried) ==
    IF i > Len(company_methods) THEN [name |-> None, tried |-> tried]
    ELSE Let(CompanyMethod(company_methods[i], page), LAMBDA company_name :
             IF Truthy(company_name)
             THEN [name |-> company_name, tried |-> Append(tried, company_methods[i])]
             ELSE CompanyChain(page, i + 1, Append(tried, company_methods[i])))

\* a faulty variant of extract_company_name, against which C8 is tested: the
\* text patterns are tried before everything else
extract_company_name_text_first(page) ==
    LET company_name == extract_from_text_patterns(page)
    IN  IF Truthy(company_name)
        THEN [name |-> company_name, tried |-> <<"text_patterns">>]
        ELSE CompanyChain(page, 1, <<>>)

\* _extract_company_name(soup)
extract_company_name(page) == CompanyChain(page, 1, <<>>)

-----------------------------------------------------------------------------
(* known_sites: skills, experience level, keywords, details                *)

UpperChar(c) ==
    IF Contains(LowerChars, c)
    THEN LET i == CHOOSE k \in 1..Len(LowerChars) : CharAt(LowerChars, k) = c
         IN  CharAt(UpperChars, i)
    ELSE c

IsLetter(c) == Len(c) = 1 /\ (Contains(UpperChars, c) \/ Contains(LowerChars, c))

\* str.title(): every letter that follows no letter is upper-cased
RECURSIVE TitleFrom(_, _)
TitleFrom(s, i) ==
    IF i > Len(s) THEN ""
    ELSE (IF i = 1 \/ ~IsLetter(CharAt(s, i - 1))
          THEN UpperChar(CharAt(s, i)) ELSE LowerChar(CharAt(s, i)))
         \o TitleFrom(s, i + 1)

TitleCase(s) == TitleFrom(s, 1)

\* the positions a match can have reached after \s*, after a literal, and
\* after an optional literal followed by \s*
WsStar(s, P) ==
    {q \in 1..(Len(s) + 1) :
        \E p \in P : p <= q /\ \A k \in p..(q - 1) : IsSpace(CharAt(s, k))}
Lit(s, P, lit) == {p + Len(lit) : p \in {q \in P : MatchesAt(s, q, lit)}}
OptWs(s, P, lit) == P \cup WsStar(s, Lit(s, P, lit))

\* the end of the run of digits that starts at index i
RECURSIVE DigitsEnd(_, _)
DigitsEnd(s, i) ==
    IF i <= Len(s) /\ Contains(DigitChars, CharAt(s, i)) THEN DigitsEnd(s, i + 1) ELSE i

\* whether years_pattern matches at index i of text:
\* (\d+)\+?\s*years?\s*(?:of\s*)?(?:experience\s*)?(?:with\s*|in\s*)?<skill>
YearsMatchAt(text, i, skill) ==
    /\ i <= Len(text) /\ Contains(DigitChars, CharAt(text, i))
    /\ LET p1 == {DigitsEnd(text, i)} \cup Lit(text, {DigitsEnd(text, i)}, "+")
           p2 == Lit(text, WsStar(text, p1), "year")
           p3 == WsStar(text, p2 \cup Lit(text, p2, "s"))
           p4 == OptWs(text, p3, "of")
           p5 == OptWs(text, p4, "experience")
           p6 == p5 \cup WsStar(text, Lit(text, p5, "with"))
                    \cup WsStar(text, Lit(text, p5, "in"))
       IN  \E p \in p6 : MatchesAt(text, p, skill)

\* re.search(years_pattern, text): group 1 + "+ years", or None
YearsFor(text, skill) ==
    LET hits == {i \in 1..Len(text) : YearsMatchAt(text, i, skill)}
    IN  IF hits = {} THEN None
        ELSE LET i == MinOf(hits)
             IN  SubSeq(text, i, DigitsEnd(text, i) - 1) \o "+ years"

tech_skills == <<
    "python", "javascript", "java", "react", "angular", "vue", "node.js",
    "sql", "postgresql", "mysql", "mongodb", "redis", "docker", "kubernetes",
    "aws", "azure", "gcp", "git", "jenkins", "ci/cd", "rest api", "graphql" >>

required_words == {"required", "must have", "essential"}

\* the loop over tech_skills of _extract_skills / _extract_skills_from_text;
\* text is the lower-cased description
RECURSIVE SkillsFrom(_, _)
SkillsFrom(text, i) ==
    IF i > Len(tech_skills) THEN <<>>
    ELSE LET skill == tech_skills[i] IN
         (IF Contains(text, skill)
          THEN << [name |-> TitleCase(skill),
                   years_experience |-> YearsFor(text, skill),
                   is_required |-> \E req_word \in required_words :
                                       Contains(text, req_word)] >>
          ELSE <<>>)
         \o SkillsFrom(text, i + 1)

\* a faulty variant of extract_experience, against which C13 is tested: the
\* junior indicators are looked for first
extract_experience_junior_first(text) ==
    IF \E word \in {"junior", "jr.", "entry level", "graduate"} : Contains(text, word)
    THEN "Junior"
    ELSE IF \E word \in {"senior", "sr.", "lead", "principal"} : Contains(text, word)
    THEN "Senior"
    ELSE IF \E word \in {"mid-level", "intermediate", "3-5 years"} : Contains(text, word)
    THEN "Mid-Level"
    ELSE "Not specified"

\* _extract_experience_level / _extract_experience_from_text
extract_experience(text) ==
    IF \E word \in {"senior", "sr.", "lead", "principal"} : Contains(text, word)
    THEN "Senior"
    ELSE IF \E word \in {"junior", "jr.", "entry level", "graduate"} : Contains(text, word)
    THEN "Junior"
    ELSE IF \E word \in {"mid-level", "intermediate", "3-5 years"} : Contains(text, word)
    THEN "Mid-Level"
    ELSE "Not specified"

common_keywords == <<
    "remote", "hybrid", "full-time", "part-time", "contract",
    "startup", "enterprise", "agile", "scrum", "team lead" >>

\* the keywords of the vocabulary that occur in text, in vocabulary order
RECURSIVE KeywordsFrom(_, _)
KeywordsFrom(text, i) ==
    IF i > Len(common_keywords) THEN <<>>
    ELSE (IF Contains(text, common_keywords[i]) THEN <<common_keywords[i]>> ELSE <<>>)
         \o KeywordsFrom(text, i + 1)

\* _extract_employment_type / _extract_employment_type_from_text
extract_employment_type(text) ==
    IF Contains(text, "full-time") THEN "Full-time"
    ELSE IF Contains(text, "part-time") THEN "Part-time"
    ELSE IF Contains(text, "contract") THEN "Contract"
    ELSE IF Contains(text, "internship") THEN "Internship"
    ELSE None

-----------------------------------------------------------------------------
(* LinkedInParser.parse                                                    *)

linkedin_description ==
    {".jobs-box__html-content", ".job-details-jobs-unified-top-card__job-description"}

linkedin_title_selectors == <<
    "h1.top-card-layout__title",
    ".job-details-jobs-unified-top-card__job-title h1",
    ".jobs-unified-top-card__job-title h1" >>

\* LinkedInParser._extract_job_title
RECURSIVE LinkedInTitle(_, _)
LinkedInTitle(page, i) ==
    IF i > Len(linkedin_title_selectors) THEN None
    ELSE LET element == select_one(page, {linkedin_title_selectors[i]})
         IN  IF element # None THEN Strip(element) ELSE LinkedInTitle(page, i + 1)

\* LinkedInParser._extract_skills
linkedin_extract_skills(page) ==
    LET description == select_one(page, linkedin_description)
    IN  IF description = None THEN <<>> ELSE SkillsFrom(Lower(description), 1)

\* LinkedInParser._extract_keywords
linkedin_extract_keywords(page) ==
    LET description == select_one(page, linkedin_description)
    IN  IF description = None THEN <<>> ELSE KeywordsFrom(Lower(description), 1)

\* LinkedInParser._extract_location: per selector, the first element that
\* names remote or hybrid work or holds a comma
RECURSIVE LocationAmong(_, _, _)
LocationAmong(page, sels, i) ==
    IF i > Len(page.elements) THEN None
    ELSE LET text == Strip(page.elements[i].text)
         IN  IF page.elements[i].sels \cap sels # {}
                /\ (Contains(Lower(text), "remote") \/ Contains(Lower(text), "hybrid")
                    \/ Contains(text, ","))
             THEN text
             ELSE LocationAmong(page, sels, i + 1)

linkedin_extract_location(page) ==
    LET a == LocationAmong(page, {".job-details-jobs-unified-top-card__bullet"}, 1)
    IN  IF a # None THEN a
        ELSE LocationAmong(page, {".jobs-unified-top-card__bullet"}, 1)

\* the last index of the character c in s, or 0
LastOf(s, c) ==
    LET hits == {i \in 1..Len(s) : CharAt(s, i) = c}
    IN  IF hits = {} THEN 0 ELSE CHOOSE i \in hits : \A j \in hits : j <= i

\* LinkedInParser._extract_seniority_level
RECURSIVE SeniorityAmong(_, _)
SeniorityAmong(page, i) ==
    IF i > Len(page.elements) THEN None
    ELSE LET text == page.elements[i].text
         IN  IF ".job-details-jobs-unified-top-card__job-insight" \in page.elements[i].sels
                /\ Contains(Lower(text), "seniority level")
             THEN Strip(SubSeq(Strip(text), LastOf(Strip(text), ":") + 1, Len(Strip(text))))
             ELSE SeniorityAmong(page, i + 1)

\* the JobAnalysisResponse that LinkedInParser.parse builds
LinkedInResponse(company_name, job_title, keywords, skills, experience_level, details) ==
    [success            |-> TRUE,
     company_name       |-> company_name,
     job_title          |-> job_title,
     companyUrl         |-> None,
     keywords           |-> keywords,
     skills             |-> skills,
     experience_level   |-> experience_level,
     additional_details |-> details,
     confidence_scores  |-> [parsing |-> 95]]

\* LinkedInParser.parse: the response and the company-name methods it called
linkedin_parse(page) ==
    Let(extract_company_name(page), LAMBDA chain :
        [result |-> LinkedInResponse(
                        chain.name,
                        LinkedInTitle(page, 1),
                        linkedin_extract_keywords(page),
                        linkedin_extract_skills(page),
                        extract_experience(Lower(get_text(page))),
                        [location        |-> linkedin_extract_location(page),
                         employment_type |-> extract_employment_type(Lower(get_text(page))),
                         seniority_level |-> SeniorityAmong(page, 1),
                         company_size    |-> None]),
         tried  |-> chain.tried])

-----------------------------------------------------------------------------
(* IndeedParser.parse                                                      *)

indeed_description == {"#jobDescriptionText", ".jobsearch-jobDescriptionText"}

\* element.get_text(strip=True) if element else None
TextOrNone(element) == IF element = None THEN None ELSE Strip(element)

\* a variant of indeed_company_name, against which C9 is tested: Indeed's
\* company name taken from the four-step chain
indeed_company_name_by_chain(page) == extract_company_name(page).name

\* the company name of IndeedParser.parse: one selector, no fallback
indeed_company_name(page) ==
    TextOrNone(select_one(page, {"[data-testid=\"inlineHeader-companyName\"]"}))

\* a faulty variant of IndeedResponse, against which C10 is tested: a lower
\* parsing confidence
IndeedResponseLessConfident(company_name, job_title, keywords, skills, experience_level, details) ==
    [success            |-> TRUE,
     company_name       |-> company_name,
     companyUrl         |-> None,
     job_title          |-> job_title,
     keywords           |-> keywords,
     skills             |-> skills,
     experience_level   |-> experience_level,
     additional_details |-> details,
     confidence_scores  |-> [parsing |-> 90]]

\* the JobAnalysisResponse that IndeedParser.parse builds
IndeedResponse(company_name, job_title, keywords, skills, experience_level, details) ==
    [success            |-> TRUE,
     company_name       |-> company_name,
     companyUrl         |-> None,
     job_title          |-> job_title,
     keywords           |-> keywords,
     skills             |-> skills,
     experience_level   |-> experience_level,
     additional_details |-> details,
     confidence_scores  |-> [parsing |-> 95]]

\* IndeedParser.parse: it calls none of the company-name methods
indeed_parse(page) ==
    LET description      == select_one(page, indeed_description)
        description_text == IF description = None THEN "" ELSE Lower(description)
    IN  [result |-> IndeedResponse(
                        indeed_company_name(page),
                        TextOrNone(select_one(page,
                            {"h1[data-testid=\"jobsearch-JobInfoHeader-title\"]"})),
                        KeywordsFrom(description_text, 1),
                        SkillsFrom(description_text, 1),
                        extract_experience(description_text),
                        [location        |-> TextOrNone(select_one(page,
                                                {"[data-testid=\"job-location\"]"})),
                         salary          |-> TextOrNone(select_one(page,
                                                {"[data-testid=\"attribute_snippet_testid\"]"})),
                         employment_type |-> extract_employment_type(description_text)]),
         tried  |-> <<>>]

\* parser.parse(rawHTML, url) of the parser variant
parse(parser, page) ==
    IF parser = "LinkedInParser" THEN linkedin_parse(page) ELSE indeed_parse(page)

-----------------------------------------------------------------------------
(* Inputs of the dispatcher and of the parsers                             *)

\* the urls get_parser is called with: absent, empty, and every combination
\* of scheme, "//", userinfo, host and rest
DispatchUrls ==
    {None, ""} \cup
    {scheme \o slashes \o userinfo \o host \o rest :
        scheme   \in {"https:", ""},
        slashes  \in {"//", ""},
        userinfo \in {"", "linkedin.com@"},
        host     \in {"www.linkedin.com", "WWW.LinkedIn.com", "uk.indeed.com",
                      "example.com:8080", "linkedin.com.indeed.com"},
        rest     \in {"", "/jobs?ref=indeed.com", "/linkedin.com/jobs"}}

JsonLdOptions == {
    <<>>,
    << JsonBlock(JObj([hiringOrganization |-> JObj([name |-> JStr(" Acme Corp ")])])) >>,
    << InvalidBlock,
       JsonBlock(JList(<< JObj([publisher |-> JObj([name |-> JStr("  ")])]),
                          JObj([companyName |-> JStr("Globex")]) >>)) >>,
    << JsonBlock(JObj([company |-> JObj([name |-> JNum])])),
       JsonBlock(JObj([hiringOrganization |-> JObj([name |-> JStr("Acme Corp")])])) >>,
    << JsonBlock(JObj([companyName |-> JStr("")])), EmptyBlock >> }

\* a description that names python next to "required" and git more than
\* fifty words further on
TenWords == "we build tools and we ship them every single week "
SpreadDescription ==
    "Python is required. " \o TenWords \o TenWords \o TenWords \o TenWords
        \o TenWords \o TenWords \o "Git is used by the team."

ElementsOptions == {
    <<>>,
    << [sels |-> {".jobs-box__html-content", "#jobDescriptionText"},
        text |-> SpreadDescription] >>,
    << [sels |-> {"h1.top-card-layout__title"}, text |-> "Backend Engineer"] >>,
    << [sels |-> {".jobs-unified-top-card__company-name", "[class*=\"company-name\"]"},
        text |-> " Initech "],
       [sels |-> {".jobs-box__html-content", ".jobsearch-jobDescriptionText"},
        text |-> "Senior role. Python required, 5+ years of experience with python. Remote."] >>,
    << [sels |-> {"[class*=\"company-name\"]"}, text |-> "X"],
       [sels |-> {"[data-testid=\"inlineHeader-companyName\"]", "[data-testid*=\"company\"]"},
        text |-> "Umbrella"],
       [sels |-> {"#jobDescriptionText"},
        text |-> "junior developer, sql and git nice to have"] >> }

MetasOptions == {
    <<>>,
    << [sel |-> "meta[property=\"og:site_name\"]", content |-> "Hooli | LinkedIn"] >>,
    << [sel |-> "meta[name=\"author\"]", content |-> "- LinkedIn"],
       [sel |-> "meta[name=\"company\"]", content |-> ""] >> }

TitleOptions == {None, "Engineer - Pied Piper | LinkedIn"}

BodyOptions == {
    "",
    "About the job\nCompany: Vandelay\nSenior team\n",
    "Intermediate. company: great job here, Employer: Wayne Ent" }

Pages ==
    {[jsonld |-> j, elements |-> e, metas |-> m, title |-> t, body |-> b] :
        j \in JsonLdOptions, e \in ElementsOptions, m \in MetasOptions,
        t \in TitleOptions, b \in BodyOptions}

-----------------------------------------------------------------------------
(* site_searcher/site_finder.py: scoring of search results                 *)

\* a dict the code has not got (Optional[Dict] that is None)
NoResult == [found |-> FALSE]

suffixes == <<"Inc", "Inc.", "LLC", "Corp", "Corp.", "Corporation", "Ltd",
              "Limited", "Co">>

\* re.sub(r'\b' + re.escape(suffix) + r'\b\s*$', '', cleaned, flags=re.IGNORECASE)
\* the suffix is cut off with the white space after it when it ends the
\* name and has a word boundary on both of its sides
StripSuffix(cleaned, suffix) ==
    LET body == RStrip(cleaned)
        p    == Len(body) - Len(suffix) + 1
    IN  IF /\ p >= 1
           /\ Lower(SubSeq(body, p, Len(body))) = Lower(suffix)
           /\ IsWordChar(CharAt(body, p))
           /\ (p = 1 \/ ~IsWordChar(CharAt(body, p - 1)))
           /\ IsWordChar(CharAt(body, Len(body)))
        THEN SubSeq(body, 1, p - 1)
        ELSE cleaned

\* the loop over suffixes from round i on, `cleaned` being its variable
RECURSIVE CleanFrom(_, _)
CleanFrom(cleaned, i) ==
    IF i > Len(suffixes) THEN cleaned
    ELSE Let(StripSuffix(cleaned, suffixes[i]), LAMBDA next : CleanFrom(next, i + 1))

\* _clean_company_name(company_name)
clean_company_name(company_name) == Strip(CleanFrom(company_name, 1))

\* a faulty variant of job_boards, against which C16 is tested: linkedin.com
\* is missing
job_boards_without_linkedin == <<"indeed.com", "glassdoor.com", "ziprecruiter.com",
                                 "monster.com", "careerbuilder.com", "simplyhired.com">>

job_boards == <<"indeed.com", "linkedin.com", "glassdoor.com", "ziprecruiter.com",
                "monster.com", "careerbuilder.com", "simplyhired.com">>

career_keywords == <<"career", "jobs", "hiring", "employment", "work", "join">>

career_terms == <<"career", "jobs", "hiring">>

career_patterns == <<"/careers", "/jobs", "/hiring", "careers.", "jobs.">>

official_indicators == <<"careers at", "jobs at", "work at", "join our team">>

\* any(x in s for x in list)
AnyIn(list, s) == \E i \in 1..Len(list) : Contains(s, list[i])

\* a faulty variant of Scaled, against which C24 is tested: the points are
\* the same in both modes
ScaledFlat(points, is_targeted) == points

\* int(points * base_multiplier), base_multiplier = 1.2 if is_targeted else 1.0
Scaled(points, is_targeted) ==
    IF is_targeted THEN (points * 12) \div 10 ELSE points

\* _score_career_url(url, title, snippet, company_name, is_targeted)
score_career_url(url, title, snippet, company_name, is_targeted) ==
    LET url_lower     == Lower(url)
        title_lower   == Lower(title)
        company_lower == Lower(clean_company_name(company_name))
    IN  IF url = "" THEN 0
        ELSE IF AnyIn(job_boards, url_lower) THEN 0
        ELSE IF ~(AnyIn(career_keywords, url_lower) \/ AnyIn(career_keywords, title_lower))
        THEN 0
        ELSE (IF AnyIn(career_terms, url_lower) THEN Scaled(50, is_targeted) ELSE 0)
           + (IF Contains(title_lower, company_lower) THEN Scaled(75, is_targeted) ELSE 0)
           + (IF AnyIn(career_patterns, url_lower) THEN Scaled(40, is_targeted) ELSE 0)
           + (IF AnyIn(official_indicators, title_lower) THEN Scaled(60, is_targeted) ELSE 0)
           + (IF is_targeted THEN 30 ELSE 0)

\* a faulty variant of Threshold, against which C28 is tested: one
\* threshold for both modes
ThresholdOfBroad(is_targeted) == 50

\* the score a candidate must reach: 30 if is_targeted else 50
Threshold(is_targeted) == IF is_targeted THEN 30 ELSE 50

\* a faulty variant of BestScored, against which C23 is tested: of the
\* results with the highest score the last one is taken
BestScoredLast(search_results, score, is_targeted) ==
    LET scored == {i \in 1..Len(search_results) : score[i] > 0}
        b      == CHOOSE i \in scored :
                      /\ \A j \in scored : score[j] <= score[i]
                      /\ \A j \in scored : score[j] = score[i] => j <= i
    IN  IF scored = {} THEN NoResult
        ELSE IF score[b] >= Threshold(is_targeted)
        THEN [score |-> score[b], url |-> search_results[b].link,
              title |-> search_results[b].title]
        ELSE NoResult

\* lines 243-248 of _find_best_career_url: max() over the results whose
\* score is positive, score[i] being the score of search_results[i]
BestScored(search_results, score, is_targeted) ==
    LET scored == {i \in 1..Len(search_results) : score[i] > 0}
        b      == MinOf({i \in scored : \A j \in scored : score[j] <= score[i]})
    IN  IF scored = {} THEN NoResult
        ELSE IF score[b] >= Threshold(is_targeted)
        THEN [score |-> score[b], url |-> search_results[b].link,
              title |-> search_results[b].title]
        ELSE NoResult

\* _find_best_career_url(search_results, company_name, is_targeted): the
\* first of the results with the highest positive score, if that score
\* reaches the threshold
find_best_career_url(search_results, company_name, is_targeted) ==
    BestScored(search_results,
               [i \in 1..Len(search_results) |->
                   score_career_url(search_results[i].link, search_results[i].title,
                                    search_results[i].snippet, company_name, is_targeted)],
               is_targeted)

-----------------------------------------------------------------------------
(* Inputs of the career page resolver: company names and search answers    *)

\* one company under three spellings: with a legal suffix, in lower case,
\* without the suffix
CompanyNames == {"Acme Inc", "acme inc", "Acme"}

\* an answer of the search service: the items of a 200 response, or a
\* request that raised (timeout, connection error, non-2xx status)
Items(list) == [ok |-> TRUE, items |-> list]
SearchFailed == [ok |-> FALSE, items |-> <<>>]

\* _google_search(query): data.get('items', []), and [] on any exception
google_search(answer) == IF answer.ok THEN answer.items ELSE <<>>

\* search results: a job board page, a result without link, a page whose
\* title alone has a career keyword, the company's careers page, a jobs site
JobBoardItem == [link |-> "https://www.linkedin.com/company/acme/jobs",
                 title |-> "Careers at Acme", snippet |-> "Acme is hiring"]
NoLinkItem   == [link |-> "", title |-> "Careers at Acme", snippet |-> ""]
AboutItem    == [link |-> "https://acme.com/about",
                 title |-> "Work with us", snippet |-> ""]
CareersItem  == [link |-> "https://acme.com/careers",
                 title |-> "Careers at Acme", snippet |-> "Join our team"]
JobsItem     == [link |-> "https://jobs.acme.io/",
                 title |-> "Open roles", snippet |-> ""]

NoCandidates  == Items(<<JobBoardItem, NoLinkItem>>)
TitleOnly     == Items(<<JobBoardItem, AboutItem>>)
CareersFirst  == Items(<<AboutItem, CareersItem, JobsItem>>)
JobsOnly      == Items(<<JobsItem>>)
NoItems       == Items(<<>>)

-----------------------------------------------------------------------------
(* site_searcher/site_finder.py: the external services                     *)
(* What the services answer during one find_career_page call is an         *)
(* environment `env`:                                                      *)
(*   store_read  : does the select on career_pages succeed                 *)
(*   clearbit    : the answer of the domain lookup                         *)
(*   targeted    : the answers to the four site: queries, in order         *)
(*   broad       : the answers to the three web queries, in order          *)
(*   store_write : does the upsert on career_pages succeed                 *)

\* an answer of the domain lookup: a response with a status code and the
\* 'domain' of its json body, or a request that raised
Response(status, domain) == [raised |-> FALSE, status |-> status, domain |-> domain]
LookupFailed == [raised |-> TRUE, status |-> 0, domain |-> None]

\* _clearbit_domain_lookup(company_name): data.get('domain') of a 200
\* response, None otherwise
clearbit_domain_lookup(answer) ==
    IF answer.raised THEN None
    ELSE IF answer.status = 200 THEN answer.domain
    ELSE None

\* a faulty variant of targeted_queries, against which C25 is tested: the
\* first query is issued a second time
targeted_queries_repeated(domain) ==
    << "site:" \o domain \o " careers",
       "site:" \o domain \o " careers",
       "site:" \o domain \o " jobs",
       "site:" \o domain \o " hiring" >>

\* the search_queries of _targeted_google_search
targeted_queries(domain) ==
    << "site:" \o domain \o " careers",
       "site:" \o domain \o " jobs",
       "site:" \o domain \o " hiring",
       "site:" \o domain \o " \"careers\" OR \"jobs\" OR \"hiring\"" >>

\* the search_queries of _broad_google_search
broad_queries(company_name) ==
    << "\"" \o company_name \o "\" careers",
       "\"" \o company_name \o "\" jobs",
       "\"" \o company_name \o "\" careers OR jobs OR hiring" >>

\* the entries of the log of a call: a step of find_career_page that calls a
\* service, and the query if the step is a search
Called(step) == [step |-> step, query |-> ""]
Searched(step, query) == [step |-> step, query |-> query]

\* lines 166-169 and 190-193: the best result of one query, if the search
\* returned results
BestResult(results, company_name, is_targeted) ==
    IF results # <<>> THEN find_best_career_url(results, company_name, is_targeted)
    ELSE NoResult

\* the loop of _targeted_google_search from query i on: the result of the
\* first query with a best result, and the queries issued
RECURSIVE targeted_from(_, _, _, _, _)

\* lines 170-176: query i gave best_result; `issued` are the queries so far
RECURSIVE TargetedQuery(_, _, _, _, _, _)
TargetedQuery(company_name, domain, answers, i, issued, best_result) ==
    IF best_result # NoResult
    THEN [result |-> [domain |-> domain,
                      career_url |-> best_result.url,
                      source |-> "targeted_google_clearbit",
                      confidence_score |-> best_result.score],
          log |-> issued]
    ELSE targeted_from(company_name, domain, answers, i + 1, issued)

targeted_from(company_name, domain, answers, i, log) ==
    IF i > Len(targeted_queries(domain)) THEN [result |-> NoResult, log |-> log]
    ELSE TargetedQuery(company_name, domain, answers, i,
                       Append(log, Searched("targeted", targeted_queries(domain)[i])),
                       BestResult(google_search(answers[i]), company_name, TRUE))

\* _targeted_google_search(company_name, domain)
targeted_google_search(company_name, domain, answers) ==
    targeted_from(company_name, domain, answers, 1, <<>>)

\* the loop of _broad_google_search from query i on
RECURSIVE broad_from(_, _, _, _)

\* lines 194-201: query i gave best_result; `issued` are the queries so far
RECURSIVE BroadQuery(_, _, _, _, _)
BroadQuery(company_name, answers, i, issued, best_result) ==
    IF best_result # NoResult
    THEN [result |-> [domain |-> Netloc(best_result.url),
                      career_url |-> best_result.url,
                      source |-> "broad_google",
                      confidence_score |-> best_result.score],
          log |-> issued]
    ELSE broad_from(company_name, answers, i + 1, issued)

broad_from(company_name, answers, i, log) ==
    IF i > Len(broad_queries(company_name)) THEN [result |-> NoResult, log |-> log]
    ELSE BroadQuery(company_name, answers, i,
                    Append(log, Searched("broad", broad_queries(company_name)[i])),
                    BestResult(google_search(answers[i]), company_name, FALSE))

\* _broad_google_search(company_name)
broad_google_search(company_name, answers) ==
    broad_from(company_name, answers, 1, <<>>)

-----------------------------------------------------------------------------
(* site_searcher/site_finder.py: the career_pages table                    *)
(* A row is [company_name, company_domain, career_url, source,             *)
(* confidence_score, last_verified]; times are days.                       *)

\* timedelta(days=30): how long a stored entry is served
CacheDays == 30

\* PostgreSQL's  value ILIKE pattern : % is any string, _ any character,
\* everything else matches itself whatever its case

\* a pattern without % matches character by character
LikeExact(value, pattern) ==
    /\ Len(value) = Len(pattern)
    /\ \A k \in 1..Len(pattern) : CharAt(pattern, k) \in {"_", CharAt(value, k)}

\* what stands before the first % matches the start of the value, what
\* stands after it matches one of the ends of the rest
RECURSIVE Like(_, _)
Like(value, pattern) ==
    LET w == FirstOf(pattern, "%", 1)
    IN  IF w = 0 THEN LikeExact(value, pattern)
        ELSE /\ Len(value) >= w - 1
             /\ LikeExact(SubSeq(value, 1, w - 1), SubSeq(pattern, 1, w - 1))
             /\ \E k \in w..(Len(value) + 1) :
                    Like(SubSeq(value, k, Len(value)), SubSeq(pattern, w + 1, Len(pattern)))

ILike(value, pattern) == Like(Lower(value), Lower(pattern))

\* a faulty variant of IsFresh, against which C4 is tested: an entry is
\* served on the day of its verification only
VerifiedToday(row, t) == row.last_verified = t

\* .gt('last_verified', thirty_days_ago): verified after now - 30 days
IsFresh(row, t) == row.last_verified > t - CacheDays

\* ILIKE on the company names of the model, computed once
ilike == [value \in CompanyNames, pattern \in CompanyNames |-> ILike(value, pattern)]

\* the rows the select of _get_from_cache returns
CacheRows(st, t, company_name) ==
    {row \in st : ilike[row.company_name, company_name] /\ IsFresh(row, t)}

\* _get_from_cache(company_name): what the call can return. The select has
\* no order, so data[0] is any of the rows found.
get_from_cache(st, t, company_name) ==
    IF CacheRows(st, t, company_name) = {} THEN {NoResult}
    ELSE {[domain           |-> row.company_domain,
           career_url       |-> row.career_url,
           source           |-> row.source,
           confidence_score |-> row.confidence_score,
           last_verified    |-> row.last_verified] : row \in CacheRows(st, t, company_name)}

\* a faulty variant of upsert, against which C5 is tested: a row whose
\* company_name is in the table already is dropped
insert_if_absent(st, data) ==
    IF \E row \in st : row.company_name = data.company_name THEN st
    ELSE st \cup {data}

\* .upsert(data, on_conflict='company_name'): the row with this
\* company_name is replaced, or the row is added
upsert(st, data) ==
    {row \in st : row.company_name # data.company_name} \cup {data}

\* a faulty variant of cache_result, against which C27 is tested: the domain
\* of the result is stored
cache_result_own_domain(st, t, company_name, parameter_result, domain) ==
    upsert(st, [company_name     |-> company_name,
                company_domain   |-> parameter_result.domain,
                career_url       |-> parameter_result.career_url,
                source           |-> parameter_result.source,
                confidence_score |-> parameter_result.confidence_score,
                last_verified    |-> t])

\* _cache_result(company_name, parameter_result, domain): the table after it
cache_result(st, t, company_name, parameter_result, domain) ==
    upsert(st, [company_name     |-> company_name,
                company_domain   |-> domain,
                career_url       |-> parameter_result.career_url,
                source           |-> parameter_result.source,
                confidence_score |-> parameter_result.confidence_score,
                last_verified    |-> t])

-----------------------------------------------------------------------------
(* Inputs of the career page resolver: the environments of a call          *)

Env(store_read, clearbit, targeted, broad, store_write) ==
    [store_read |-> store_read, clearbit |-> clearbit, targeted |-> targeted,
     broad |-> broad, store_write |-> store_write]

\* the environments of a call
Envs ==
    { \* the first targeted query finds the careers page
      Env(TRUE, Response(200, "acme.com"),
          <<CareersFirst, SearchFailed, SearchFailed, SearchFailed>>,
          <<JobsOnly, JobsOnly, JobsOnly>>, TRUE),
      \* the third targeted query finds a page with the lowest passing score
      Env(TRUE, Response(200, "acme.com"),
          <<SearchFailed, NoCandidates, TitleOnly, CareersFirst>>,
          <<CareersFirst, CareersFirst, CareersFirst>>, TRUE),
      \* no targeted query finds a page, the second broad query does
      Env(TRUE, Response(200, "acme.com"),
          <<NoItems, NoCandidates, SearchFailed, NoCandidates>>,
          <<TitleOnly, CareersFirst, JobsOnly>>, TRUE),
      \* the domain lookup raises, the first broad query finds a page
      Env(TRUE, LookupFailed,
          <<CareersFirst, CareersFirst, CareersFirst, CareersFirst>>,
          <<JobsOnly, CareersFirst, CareersFirst>>, TRUE),
      \* the domain lookup knows no domain, the last broad query finds a page
      Env(TRUE, Response(200, None),
          <<CareersFirst, CareersFirst, CareersFirst, CareersFirst>>,
          <<SearchFailed, NoCandidates, CareersFirst>>, TRUE),
      \* an empty domain and no page anywhere
      Env(TRUE, Response(200, ""),
          <<CareersFirst, CareersFirst, CareersFirst, CareersFirst>>,
          <<NoItems, TitleOnly, SearchFailed>>, TRUE),
      \* a domain and no page anywhere
      Env(TRUE, Response(200, "acme.com"),
          <<NoCandidates, NoItems, SearchFailed, NoCandidates>>,
          <<NoCandidates, TitleOnly, NoItems>>, TRUE),
      \* the lookup answers 404
      Env(TRUE, Response(404, "acme.com"),
          <<CareersFirst, CareersFirst, CareersFirst, CareersFirst>>,
          <<NoCandidates, JobsOnly, JobsOnly>>, TRUE),
      \* the store cannot be read
      Env(FALSE, Response(200, "acme.com"),
          <<JobsOnly, SearchFailed, SearchFailed, SearchFailed>>,
          <<JobsOnly, JobsOnly, JobsOnly>>, TRUE),
      \* the store cannot be written
      Env(TRUE, Response(200, "acme.com"),
          <<CareersFirst, SearchFailed, SearchFailed, SearchFailed>>,
          <<JobsOnly, JobsOnly, JobsOnly>>, FALSE) }

-----------------------------------------------------------------------------
(* site_searcher/site_finder.py: find_career_page                          *)

\* what a call gives when the store raised: the exception leaves the call
StoreError == [error |-> "store"]

\* a faulty variant of NeedsBroad, against which C3 is tested: the broad
\* search runs whatever the targeted search found
AlwaysBroad(career_result) == TRUE

\* line 94, `if not career_result`: is the broad search to run
NeedsBroad(career_result) == career_result = NoResult

\* lines 79-96 of find_career_page: the domain lookup and the searches.
\* Gives company_domain, career_result and the external calls made, in
\* their order.
Discover(company_name, env) ==
    Let(clearbit_domain_lookup(env.clearbit), LAMBDA company_domain :
    Let(IF Truthy(company_domain)
        THEN targeted_google_search(company_name, company_domain, env.targeted)
        ELSE [result |-> NoResult, log |-> <<>>], LAMBDA targeted :
    Let(IF NeedsBroad(targeted.result)
        THEN broad_google_search(company_name, env.broad)
        ELSE [result |-> targeted.result, log |-> <<>>], LAMBDA broad :
        [company_domain |-> company_domain,
         career_result  |-> broad.result,
         log            |-> <<Called("domain")>> \o targeted.log \o broad.log])))

\* Discover on the company names and environments of the model, computed
\* once: the lookup and the searches do not read the store
discovered == [company_name \in CompanyNames, env \in Envs |-> Discover(company_name, env)]

\* a faulty variant of DiscoverAndPersist, against which C29 is tested: a
\* failure of the upsert is swallowed and the page found is returned
DiscoverAndReturn(st, t, company_name, env, log) ==
    Let(discovered[company_name, env], LAMBDA found :
        [ret |-> found.career_result,
         store |-> IF found.career_result # NoResult /\ env.store_write
                   THEN cache_result(st, t, company_name, found.career_result,
                                     found.company_domain)
                   ELSE st,
         log |-> log \o found.log
                 \o IF found.career_result # NoResult THEN <<Called("persist")>>
                    ELSE <<>>,
         company_domain |-> found.company_domain])

\* lines 79-105 of find_career_page: discovery, then persist.  Gives what
\* the call returns (ret), the table after it (store), the external calls
\* made in their order (log) and company_domain.
DiscoverAndPersist(st, t, company_name, env, log) ==
    Let(discovered[company_name, env], LAMBDA found :
        IF found.career_result # NoResult
        THEN IF env.store_write
             THEN [ret |-> found.career_result,
                   store |-> cache_result(st, t, company_name, found.career_result,
                                          found.company_domain),
                   log |-> log \o found.log \o <<Called("persist")>>,
                   company_domain |-> found.company_domain]
             ELSE [ret |-> StoreError, store |-> st,
                   log |-> log \o found.log \o <<Called("persist")>>,
                   company_domain |-> found.company_domain]
        ELSE [ret |-> NoResult, store |-> st, log |-> log \o found.log,
              company_domain |-> found.company_domain])

\* find_career_page(company_name, force_refresh) at time t on table st,
\* where cached_result is what _get_from_cache returns if it is called and
\* the store answers
find_career_page(st, t, company_name, force_refresh, env, cached_result) ==
    IF ~force_refresh /\ ~env.store_read
    THEN [ret |-> StoreError, store |-> st, log |-> <<Called("cache")>>,
          company_domain |-> None]
    ELSE IF ~force_refresh /\ cached_result # NoResult
    THEN [ret |-> cached_result, store |-> st, log |-> <<Called("cache")>>,
          company_domain |-> None]
    ELSE DiscoverAndPersist(st, t, company_name, env,
                            IF force_refresh THEN <<>> ELSE <<Called("cache")>>)

-----------------------------------------------------------------------------
(* Inputs of /analyze                                                      *)

\* the markup of a posting that names its company and its role, and the
\* markup of a page that names neither
PostingHtml ==
    "<html><head><script type=\"application/ld+json\">{\"hiringOrganization\": "
    \o "{\"name\": \"Acme Inc\"}}</script></head><body>"
    \o "<h1 class=\"top-card-layout__title\">Backend Engineer</h1>"
    \o "<div data-testid=\"inlineHeader-companyName\">Acme</div>"
    \o "<div id=\"jobDescriptionText\">Senior role, python required</div></body></html>"
BareHtml == "<html><body><p>Apply now</p></body></html>"

\* the markup of a posting that lists what is nice to have
StackList == "Nice to have: Python, Java, SQL, MySQL, Redis, AWS, Azure, Docker, "
             \o "Git, Jira, React, Vue."
StackHtml ==
    "<html><body><h1 data-testid=\"jobsearch-JobInfoHeader-title\">Data Engineer</h1>"
    \o "<div data-testid=\"inlineHeader-companyName\">Acme</div>"
    \o "<div id=\"jobDescriptionText\">" \o StackList \o "</div></body></html>"

Markups == {PostingHtml, BareHtml, StackHtml}

\* BeautifulSoup(content, 'html.parser'): the tree of a markup
BeautifulSoup(markup) ==
    IF markup = PostingHtml
    THEN [jsonld   |-> << JsonBlock(JObj([hiringOrganization |->
                                             JObj([name |-> JStr("Acme Inc")])])) >>,
          elements |-> << [sels |-> {"h1.top-card-layout__title"},
                           text |-> "Backend Engineer"],
                          [sels |-> {"[data-testid=\"inlineHeader-companyName\"]",
                                     "[data-testid*=\"company\"]"},
                           text |-> "Acme"],
                          [sels |-> {"#jobDescriptionText"},
                           text |-> "Senior role, python required"] >>,
          metas    |-> <<>>,
          title    |-> None,
          body     |-> ""]
    ELSE IF markup = StackHtml
    THEN [jsonld   |-> <<>>,
          elements |-> << [sels |-> {"h1[data-testid=\"jobsearch-JobInfoHeader-title\"]"},
                           text |-> "Data Engineer"],
                          [sels |-> {"[data-testid=\"inlineHeader-companyName\"]",
                                     "[data-testid*=\"company\"]"},
                           text |-> "Acme"],
                          [sels |-> {"#jobDescriptionText"}, text |-> StackList] >>,
          metas    |-> <<>>,
          title    |-> None,
          body     |-> ""]
    ELSE [jsonld |-> <<>>, elements |-> <<>>, metas |-> <<>>, title |-> None,
          body |-> "Apply now"]

\* parser.parse on the parsers and markups of the model, computed once
parsed ==
    [parser \in {RegisteredParsers[i] : i \in 1..Len(RegisteredParsers)},
     markup \in Markups |-> parse(parser, BeautifulSoup(markup)).result]

\* the text of a posting that names its company and its role, and a text
\* that names neither
PostingText == "Acme Inc is hiring a Senior Backend Engineer. Python required."
BareText    == "We are hiring."

\* the text of the posting that lists what is nice to have
StackText   == "Data Engineer. " \o StackList

Request(content, url, rawHTML, title, companyGuess) ==
    [content |-> content, url |-> url, rawHTML |-> rawHTML, title |-> title,
     companyGuess |-> companyGuess]

\* the requests of the model
Requests ==
    { Request("", None, None, None, None),
      Request(" \n", "https://www.linkedin.com/jobs/view/1", PostingHtml, None, None),
      Request(PostingText, "https://www.linkedin.com/jobs/view/1", PostingHtml, None, None),
      Request(PostingText, "https://www.linkedin.com/jobs/view/1", None, "Staff Engineer",
              "Globex"),
      Request(BareText, "https://www.linkedin.com/jobs/view/1", "", "Engineer", "acme inc"),
      Request(BareText, "https://www.linkedin.com/jobs/view/2", BareHtml, "Engineer", "acme inc"),
      Request(StackText, "https://uk.indeed.com/viewjob?jk=1", StackHtml, None, None),
      Request(BareText, "https://uk.indeed.com/viewjob?jk=2", BareHtml, None, "Acme"),
      Request(PostingText, "https://example.com/jobs/1", PostingHtml, "Engineer", None),
      Request(BareText, None, None, None, None),
      Request(StackText, "", StackHtml, None, None) }

\* what the services answer during one request: does redis answer get and
\* setex, do the language models run, does BeautifulSoup take the markup,
\* and the environment of the call of find_career_page
World(redis_get, redis_set, models, soup, finder_env) ==
    [redis_get |-> redis_get, redis_set |-> redis_set, models |-> models,
     soup |-> soup, finder_env |-> finder_env]

\* the environments of find_career_page that a request runs in: a targeted
\* search that finds the careers page; no page anywhere; a store that
\* cannot be read
FoundEnv ==
    Env(TRUE, Response(200, "acme.com"),
        <<CareersFirst, SearchFailed, SearchFailed, SearchFailed>>,
        <<JobsOnly, JobsOnly, JobsOnly>>, TRUE)
NothingEnv ==
    Env(TRUE, Response(200, ""),
        <<CareersFirst, CareersFirst, CareersFirst, CareersFirst>>,
        <<NoItems, TitleOnly, SearchFailed>>, TRUE)
UnreadableEnv ==
    Env(FALSE, Response(200, "acme.com"),
        <<JobsOnly, SearchFailed, SearchFailed, SearchFailed>>,
        <<JobsOnly, JobsOnly, JobsOnly>>, TRUE)

\* a domain lookup that raises before a broad search that finds a page; a
\* store that cannot be written
LookupRaisesEnv ==
    Env(TRUE, LookupFailed,
        <<CareersFirst, CareersFirst, CareersFirst, CareersFirst>>,
        <<JobsOnly, CareersFirst, CareersFirst>>, TRUE)
UnwritableEnv ==
    Env(TRUE, Response(200, "acme.com"),
        <<CareersFirst, SearchFailed, SearchFailed, SearchFailed>>,
        <<JobsOnly, JobsOnly, JobsOnly>>, FALSE)

\* the worlds of the model
Worlds ==
    { World(TRUE, TRUE, TRUE, TRUE, FoundEnv),
      World(TRUE, TRUE, TRUE, TRUE, NothingEnv),
      World(FALSE, FALSE, TRUE, TRUE, UnreadableEnv),
      World(TRUE, FALSE, FALSE, FALSE, FoundEnv),
      World(TRUE, TRUE, TRUE, TRUE, LookupRaisesEnv),
      World(TRUE, TRUE, TRUE, TRUE, UnwritableEnv) }

-----------------------------------------------------------------------------
(* scanner.py: the skills of a text                                        *)

\* the indices where a word of text begins and where one ends
WordStarts(text) ==
    {i \in 1..Len(text) :
        ~IsSpace(CharAt(text, i)) /\ (i = 1 \/ IsSpace(CharAt(text, i - 1)))}
WordEnds(text) ==
    {i \in 1..Len(text) :
        ~IsSpace(CharAt(text, i)) /\ (i = Len(text) \/ IsSpace(CharAt(text, i + 1)))}

\* the k-th smallest member of a set of numbers
Nth(S, k) == CHOOSE i \in S : Cardinality({j \in S : j <= i}) = k

\* text.split()
Split(text) ==
    [k \in 1..Cardinality(WordStarts(text)) |->
        SubSeq(text, Nth(WordStarts(text), k), Nth(WordEnds(text), k))]

\* ' '.join(words[a..b])
RECURSIVE Join(_, _, _)
Join(words, a, b) ==
    IF a > b THEN ""
    ELSE IF a = b THEN words[a]
    ELSE Join(words, a, (a + b) \div 2) \o " " \o Join(words, (a + b) \div 2 + 1, b)

\* the default of `window` in get_context_around_skill
ContextWindow == 50

\* max(a, b)
Max(a, b) == IF a >= b THEN a ELSE b

\* the words[start:end] of get_context_around_skill around the first word
\* that holds the skill
ContextOf(words, skill, window) ==
    LET skill_indices == {i \in 1..Len(words) : Contains(Lower(words[i]), Lower(skill))}
        idx           == MinOf(skill_indices)
    IN  IF skill_indices = {} THEN ""
        ELSE Join(words, Max(1, idx - window),
                  IF Len(words) <= idx - 1 + window THEN Len(words) ELSE idx - 1 + window)

\* get_context_around_skill(text, skill, window)
get_context_around_skill(text, skill, window) == ContextOf(Split(text), skill, window)

required_indicators == <<"required", "must have", "essential", "mandatory">>

preferred_indicators == <<"preferred", "nice to have", "bonus", "plus">>

\* a faulty variant of is_skill_required, against which C14 is tested: a
\* preferred indicator marks the skill as well
is_skill_required_or_preferred(text, skill) ==
    AnyIn(required_indicators \o preferred_indicators,
          Lower(get_context_around_skill(text, skill, ContextWindow)))

\* is_skill_required(text, skill)
is_skill_required(text, skill) ==
    AnyIn(required_indicators, Lower(get_context_around_skill(text, skill, ContextWindow)))

\* extract_experience_for_skill(text, skill): each of experience_patterns
\* starts with a number (\d+), so a context without a digit gives None;
\* the match in a context with digits is not modelled
NotModelled == "<not modelled>"

extract_experience_for_skill(text, skill) ==
    IF \E i \in 1..Len(text) : Contains(DigitChars, CharAt(text, i))
    THEN NotModelled ELSE None

\* the values of skill_keywords, category by category
all_skills == <<
    "python", "java", "javascript", "c++", "c#", "ruby", "go", "rust",
    "html", "css", "react", "angular", "vue", "node.js", "express",
    "sql", "mysql", "postgresql", "mongodb", "redis",
    "aws", "azure", "gcp", "docker", "kubernetes",
    "git", "jenkins", "jira", "confluence" >>

\* the texts the analyzer is called with on its own: a posting that asks
\* for nothing, and one whose requirement stands far from its last skill
NiceText == "SQL and Git are nice to have"
Filler   == "we build tools and we ship them every week and "
FarText  == "Python is required. " \o Filler \o Filler \o Filler \o Filler \o Filler
                \o Filler \o "Git is a plus."

ScanTexts == {NiceText, FarText}

\* the keyphrases KeyBERT gives that name a skill, and one that names none
SkillPhrases == <<"python", "git", "sql", "python developer">>
NoisePhrase  == "teamwork"

\* is_skill_required and extract_experience_for_skill on the texts and
\* keyphrases of the model, computed once
skill_context ==
    [text \in ScanTexts, skill \in {SkillPhrases[i] : i \in 1..Len(SkillPhrases)} |->
        [years_experience |-> extract_experience_for_skill(text, skill),
         is_required      |-> is_skill_required(text, skill)]]

\* lines 122-130: the Skill of a relevant keyphrase
SkillOf(text, skill) ==
    IF <<text, skill>> \in DOMAIN skill_context
    THEN [name |-> skill, years_experience |-> skill_context[text, skill].years_experience,
          is_required |-> skill_context[text, skill].is_required]
    ELSE [name |-> skill, years_experience |-> extract_experience_for_skill(text, skill),
          is_required |-> is_skill_required(text, skill)]

\* line 118: does a keyphrase hold a known skill
HoldsSkill(keyword) == AnyIn(all_skills, Lower(keyword))

\* HoldsSkill on the keyphrases of the model, computed once
holds_skill ==
    [keyword \in {SkillPhrases[i] : i \in 1..Len(SkillPhrases)} \cup {NoisePhrase} |->
        HoldsSkill(keyword)]

\* lines 116-119: the keyphrases that hold a known skill
RelevantSkills(keywords) ==
    {i \in 1..Len(keywords) :
        IF keywords[i] \in DOMAIN holds_skill THEN holds_skill[keywords[i]]
        ELSE HoldsSkill(keywords[i])}

\* extract_skills_and_experience(text), `keywords` being the keyphrases
\* that kw_model.extract_keywords gives for the text
extract_skills_and_experience(text, keywords) ==
    [k \in 1..Cardinality(RelevantSkills(keywords)) |->
        SkillOf(text, keywords[Nth(RelevantSkills(keywords), k)])]

-----------------------------------------------------------------------------
(* scanner.py: JobAnalyzer.analyze                                         *)

\* min(a, b)
Min(a, b) == IF a <= b THEN a ELSE b

\* a faulty variant of calculate_confidence_scores, against which C12 is
\* tested: the scores of skills and keywords grow without limit
calculate_confidence_scores_uncapped(company_name, job_title, skills, keywords) ==
    [company_name |-> IF Truthy(company_name) THEN 80 ELSE 0,
     job_title    |-> IF Truthy(job_title) THEN 90 ELSE 0,
     skills       |-> Len(skills) * 10,
     keywords     |-> Len(keywords) * 5]

\* calculate_confidence_scores(result), in hundredths
calculate_confidence_scores(company_name, job_title, skills, keywords) ==
    [company_name |-> IF Truthy(company_name) THEN 80 ELSE 0,
     job_title    |-> IF Truthy(job_title) THEN 90 ELSE 0,
     skills       |-> Min(90, Len(skills) * 10),
     keywords     |-> Min(90, Len(keywords) * 5)]

\* what analyze gives when it raised: HTTPException(500, "Analysis failed: ...")
AnalysisFailed == [raised |-> TRUE]

\* lines 238-294 of analyze, `found` being what the extract_* methods and
\* KeyBERT gave for the content
Assemble(found, title, company_guess) ==
    LET job_title    == IF ~Truthy(found.job_title) /\ Truthy(title)
                        THEN title ELSE found.job_title
        company_name == IF ~Truthy(found.company_name) /\ Truthy(company_guess)
                        THEN company_guess ELSE found.company_name
        page_title   == IF Truthy(title) THEN [page_title |-> title] ELSE <<>>
        guess        == IF Truthy(company_guess)
                        THEN [company_guess |-> company_guess] ELSE <<>>
    IN  [success            |-> TRUE,
         company_name       |-> company_name,
         job_title          |-> job_title,
         companyUrl         |-> None,
         keywords           |-> found.keywords,
         skills             |-> found.skills,
         experience_level   |-> found.experience_level,
         additional_details |-> guess @@ page_title @@ found.details,
         confidence_scores  |-> calculate_confidence_scores(
                                    company_name, job_title,
                                    found.skills, found.keywords)]

\* the alternatives of the first of exp_patterns; the dot of entry.level is
\* any character but a line break
level_words == <<"entry.level", "junior", "senior", "lead", "principal", "staff">>

\* whether the alternative w matches at index i of text, whatever the case
LevelAt(text, i, w) ==
    /\ i + Len(w) - 1 <= Len(text)
    /\ \A k \in 1..Len(w) :
          IF CharAt(w, k) = "." THEN CharAt(text, i + k - 1) # "\n"
          ELSE LowerChar(CharAt(text, i + k - 1)) = CharAt(w, k)

\* lines 254-264: group 1 of the leftmost match of the first pattern; the
\* second pattern starts with a number, and its match is not modelled
extract_experience_level(content) ==
    LET hits == {i \in 1..Len(content) :
                    \E j \in 1..Len(level_words) : LevelAt(content, i, level_words[j])}
        at   == MinOf(hits)
        w    == level_words[CHOOSE j \in 1..Len(level_words) :
                                LevelAt(content, at, level_words[j])]
    IN  IF hits # {} THEN SubSeq(content, at, at + Len(w) - 1)
        ELSE IF \E i \in 1..Len(content) : Contains(DigitChars, CharAt(content, i))
        THEN NotModelled
        ELSE None

remote_keywords == <<"remote", "work from home", "distributed", "telecommute">>

education_keywords == <<"bachelor", "master", "phd", "degree", "university", "college">>

\* extract_additional_details(text, url) for a text that names neither a
\* salary nor a company size
extract_additional_details(text, url) ==
    (IF Truthy(url) THEN [source_url |-> url] ELSE <<>>)
    @@ [remote_work        |-> AnyIn(remote_keywords, Lower(text)),
        education_required |-> AnyIn(education_keywords, Lower(text))]

\* what depends on the text alone, on the texts the analyzer is called with
\* and computed once
scanned ==
    [content \in ScanTexts |->
        [experience_level |-> extract_experience_level(content),
         details          |-> extract_additional_details(content, None)]]

\* what the language models of scanner.py (spaCy, KeyBERT) and its patterns
\* extract from the texts of the model
extracted ==
    [content \in {PostingText, BareText, StackText} |->
        IF content = StackText
        THEN [company_name     |-> None,
              job_title        |-> "Data Engineer",
              skills           |-> extract_skills_and_experience(StackText,
                                       <<"python", "java", "sql", "mysql", "redis", "aws",
                                         "azure", "docker", "git", "jira", "react", "vue">>),
              keywords         |-> <<"data engineer", "engineer", "nice", "python java",
                                      "java sql", "sql mysql", "mysql redis", "redis aws",
                                      "aws azure", "azure docker", "docker git", "git jira",
                                      "jira react", "react vue", "vue">>,
              experience_level |-> extract_experience_level(StackText),
              details          |-> [remote |-> FALSE]]
        ELSE IF content = PostingText
        THEN [company_name     |-> "Acme Inc",
              job_title        |-> "Senior Backend Engineer",
              skills           |-> << [name |-> "Python", years_experience |-> None,
                                       is_required |-> TRUE] >>,
              keywords         |-> <<"backend engineer", "python required">>,
              experience_level |-> "Senior",
              details          |-> [remote |-> FALSE]]
        ELSE [company_name     |-> None,
              job_title        |-> None,
              skills           |-> <<>>,
              keywords         |-> <<"hiring">>,
              experience_level |-> None,
              details          |-> [remote |-> FALSE]]]

\* analyze(content, url, title, company_guess); `models` tells whether the
\* language models run or raise
analyze(content, url, title, company_guess, models) ==
    IF ~models THEN AnalysisFailed
    ELSE Assemble(extracted[content], title, company_guess)

\* the fields that analyze extracts; `nlp` is what spaCy, KeyBERT and the
\* title patterns give for the content
Fields == {"job_title", "company_name", "skills", "keywords", "experience_level",
           "additional_details"}

Found(content, nlp) ==
    [company_name     |-> nlp.company_name,
     job_title        |-> nlp.job_title,
     skills           |-> extract_skills_and_experience(content, nlp.skill_phrases),
     keywords         |-> nlp.keywords,
     experience_level |-> scanned[content].experience_level,
     details          |-> scanned[content].details]

\* analyze(content, None, title, company_guess) where the extraction of the
\* field `fault` raises (None: none does): the try of line 236 spans all
\* extractions, and its except raises HTTPException(500)
analyze_text(content, nlp, title, company_guess, fault) ==
    IF fault # None THEN AnalysisFailed
    ELSE Assemble(Found(content, nlp), title, company_guess)

-----------------------------------------------------------------------------
(* app.py: the redis cache and the /analyze handler                        *)
(* The cache is [client, entries]: client tells whether redis was reached  *)
(* at startup (redis_client is not None); an entry is [key, value, set_at, *)
(* ttl] with set_at in days and ttl in seconds.                            *)

\* generate_cache_key(content, url): the md5 digest of "url:content", kept
\* as the text that is digested
generate_cache_key(content, url) == "job_analysis:" \o url \o ":" \o content

\* the entries of a key that have not expired at time t
Live(cch, cache_key, t) ==
    {e \in cch.entries : e.key = cache_key /\ (t - e.set_at) * 86400 < e.ttl}

\* a faulty variant of app_get_from_cache, against which C21 is tested: the
\* cache is never read
app_get_from_cache_blind(cch, redis_get, cache_key, t) == NoResult

\* get_from_cache(cache_key) of app.py: the value cached, nothing without
\* client, on an error of redis or when the key is not there
app_get_from_cache(cch, redis_get, cache_key, t) ==
    IF ~cch.client \/ ~redis_get \/ Live(cch, cache_key, t) = {} THEN NoResult
    ELSE (CHOOSE e \in Live(cch, cache_key, t) : TRUE).value

\* set_cache(cache_key, data, ttl) of app.py: the cache after it; nothing is
\* written without client or on an error of redis
app_set_cache(cch, redis_set, cache_key, data, ttl, t) ==
    IF ~cch.client \/ ~redis_set THEN cch
    ELSE [cch EXCEPT !.entries = {e \in @ : e.key # cache_key}
                        \cup {[key |-> cache_key, value |-> data, set_at |-> t,
                               ttl |-> ttl]}]

\* a faulty variant of UsesParser, against which C1 is tested: the parser
\* the dispatcher returned is never used
NeverUsesParser(parser, job_request) == FALSE

\* line 217, `if parser and job_request.rawHTML`
UsesParser(parser, job_request) == parser # None /\ Truthy(job_request.rawHTML)

\* a faulty variant of Extract, against which C19 is tested: a fault of the
\* extraction is passed over
ExtractUnguarded(parser, job_request, models, soup) ==
    IF UsesParser(parser, job_request)
    THEN [result |-> parsed[parser, job_request.rawHTML], ran |-> "parse"]
    ELSE [result |-> analyze(job_request.content, job_request.url, None, None, TRUE),
          ran    |-> "analyze"]

\* a faulty variant of Extract, against which C30 is tested: the hints of
\* the request are handed to the analyzer
ExtractWithHints(parser, job_request, models, soup) ==
    IF UsesParser(parser, job_request)
    THEN [result |-> IF soup THEN parsed[parser, job_request.rawHTML] ELSE AnalysisFailed,
          ran    |-> "parse"]
    ELSE [result |-> analyze(job_request.content, job_request.url, job_request.title,
                             job_request.companyGuess, models),
          ran    |-> "analyze"]

\* lines 217-222: the extraction; gives the result (or AnalysisFailed) and
\* the path that ran
Extract(parser, job_request, models, soup) ==
    IF UsesParser(parser, job_request)
    THEN [result |-> IF soup THEN parsed[parser, job_request.rawHTML] ELSE AnalysisFailed,
          ran    |-> "parse"]
    ELSE [result |-> analyze(job_request.content, job_request.url, None, None, models),
          ran    |-> "analyze"]

\* a faulty variant of WithHints, against which C22 is tested: a hint that
\* is given replaces what was extracted
WithHintsFirst(result, job_request) ==
    [result EXCEPT
        !.job_title    = IF Truthy(job_request.title) THEN job_request.title ELSE @,
        !.company_name = IF Truthy(job_request.companyGuess)
                         THEN job_request.companyGuess ELSE @]

\* lines 227-231: title and company name taken from the hints of the request
WithHints(result, job_request) ==
    [result EXCEPT
        !.job_title    = IF ~Truthy(@) /\ Truthy(job_request.title)
                         THEN job_request.title ELSE @,
        !.company_name = IF ~Truthy(@) /\ Truthy(job_request.companyGuess)
                         THEN job_request.companyGuess ELSE @]

\* lines 233-240: is the career page to be looked up
NeedsCareerPage(result) == ~Truthy(result.companyUrl) /\ Truthy(result.company_name)

\* a faulty variant of Enriched, against which C18 is tested: a failure of
\* the store marks the result as failed
EnrichedOrFailed(result, ret) ==
    IF ret = NoResult THEN result
    ELSE IF ret = StoreError THEN [result EXCEPT !.success = FALSE]
    ELSE [result EXCEPT !.companyUrl = ret.career_url]

\* lines 234-240: companyUrl is taken from what find_career_page returns;
\* nothing is taken when it returns None or raises
Enriched(result, ret) ==
    IF ret \in {NoResult, StoreError} THEN result
    ELSE [result EXCEPT !.companyUrl = ret.career_url]

\* lines 242-249: the result is cached for an hour and returned
Respond(result, world, cch, st, t, cache_key, parser, ran) ==
    [status |-> 200, response |-> result, parser |-> parser, ran |-> ran \o <<"set_cache">>,
     cache |-> app_set_cache(cch, world.redis_set, cache_key, result, 3600, t),
     store |-> st]

\* a request answered with an error
Refuse(status, parser, ran, cch, st) ==
    [status |-> status, response |-> None, parser |-> parser, ran |-> ran,
     cache |-> cch, store |-> st]

\* a faulty variant of ContentIsEmpty, against which C17 is tested: white
\* space counts as content
ContentIsEmptyString(content) == content = ""

\* line 202: not job_request.content.strip()
ContentIsEmpty(content) == Strip(content) = ""

\* the steps of analyze_job_posting that read the request alone, on the
\* requests of the model and computed once: the empty-content check of line
\* 202, the cache key of line 206, and the parser that get_parser returns
\* from the registered parsers
prepared ==
    [job_request \in Requests |->
        [empty     |-> ContentIsEmpty(job_request.content),
         cache_key |-> generate_cache_key(job_request.content,
                           IF Truthy(job_request.url) THEN job_request.url ELSE ""),
         parser    |-> get_parser(RegisteredParsers, job_request.url)]]

\* parser_factory.get_parser(job_request.url), line 214
Dispatch(job_request) ==
    IF parsers = RegisteredParsers THEN prepared[job_request].parser
    ELSE get_parser(parsers, job_request.url)

\* analyze_job_posting(request, job_request) at time t on cache cch and
\* table st: the outcomes the request can have (they differ in the row the
\* store returns first)
analyze_job_posting(job_request, world, cch, st, t) ==
    IF prepared[job_request].empty THEN {Refuse(400, None, <<>>, cch, st)}
    ELSE
    Let(prepared[job_request].cache_key, LAMBDA cache_key :
    Let(app_get_from_cache(cch, world.redis_get, cache_key, t), LAMBDA cached_result :
    Let(Dispatch(job_request), LAMBDA parser :
    Let(Extract(parser, job_request, world.models, world.soup), LAMBDA extraction :
    Let(<<"get_from_cache", "get_parser", extraction.ran>>, LAMBDA ran :
    Let(WithHints(extraction.result, job_request), LAMBDA result :
        IF cached_result # NoResult
        THEN {[status |-> 200, response |-> cached_result, parser |-> None,
               ran |-> <<"get_from_cache">>, cache |-> cch, store |-> st]}
        ELSE IF extraction.result = AnalysisFailed
        THEN {Refuse(500, parser, ran, cch, st)}
        ELSE IF NeedsCareerPage(result)
        THEN {Let(find_career_page(st, t, result.company_name, FALSE,
                                   world.finder_env, cached_career),
                  LAMBDA found :
                  Respond(Enriched(result, found.ret), world, cch, found.store, t,
                          cache_key, parser, Append(ran, "find_career_page"))) :
                 cached_career \in get_from_cache(st, t, result.company_name)}
        ELSE {Respond(result, world, cch, st, t, cache_key, parser, ran)}))))))

-----------------------------------------------------------------------------
(* The state and the operations                                            *)

\* how often get_parser is called with one url
MaxDispatchCalls == 2

NoParse   == [called |-> FALSE]
NoFind    == [called |-> FALSE, n |-> 0]

NoAnalyze == [called |-> FALSE]

NoScan    == [called |-> FALSE]

NoBest    == [called |-> FALSE]

\* the state after construction (lifespan in app.py), no call made yet
InitRest ==
    /\ parsers = RegisteredParsers
    /\ store = {}
    /\ now = 0
    /\ ticks = 0
    /\ f_call = NoFind
    /\ f_prev = [company_name \in CompanyNames |-> {}]
    /\ a_call = NoAnalyze
    /\ requests = 0

\* parser_factory.get_parser(url), called again and again with the url
GetParser ==
    /\ Len(d_call.returned) < MaxDispatchCalls
    /\ d_call' = [d_call EXCEPT !.returned = Append(@, get_parser(parsers, d_call.url))]
    /\ UNCHANGED <<parsers, p_call, store, now, ticks, f_call, f_prev,
                   cache, a_call, requests, s_call, b_call>>

\* parser.parse(content, url) of one of the registered parsers
Parse ==
    /\ ~p_call.called
    /\ \E out \in {parse(p_call.parser, p_call.page)} :
           p_call' = [p_call EXCEPT !.called = TRUE, !.result = out.result,
                                    !.tried = out.tried]
    /\ UNCHANGED <<parsers, d_call, store, now, ticks, f_call, f_prev,
                   cache, a_call, requests, s_call, b_call>>

NoCache == [client |-> TRUE, entries |-> {}]

InitDispatch ==
    /\ InitRest
    /\ s_call = NoScan
    /\ b_call = NoBest
    /\ cache = NoCache
    /\ d_call \in {[url |-> url, returned |-> <<>>] : url \in DispatchUrls}
    /\ p_call = NoParse

InitParse ==
    /\ InitRest
    /\ s_call = NoScan
    /\ b_call = NoBest
    /\ cache = NoCache
    /\ d_call = [url |-> None, returned |-> <<>>]
    /\ p_call \in {[called |-> FALSE, parser |-> RegisteredParsers[i], page |-> page,
                    result |-> None, tried |-> <<>>] :
                        i \in 1..Len(RegisteredParsers), page \in Pages}

NextDispatch == GetParser

NextParse == Parse

SpecDispatch == InitDispatch /\ [][NextDispatch]_vars

SpecParse == InitParse /\ [][NextParse]_vars

\* how many find_career_page calls are made, how often the clock advances
\* and by how many days
MaxFinds == 2
MaxTicks == 2
TickDays == 16

\* find_career_page(company_name, force_refresh), in some environment
Find ==
    /\ f_call.n < MaxFinds
    /\ \E company_name \in CompanyNames :
       \E cached_result \in get_from_cache(store, now, company_name) :
       \E force_refresh \in BOOLEAN, env \in Envs :
       \E out \in {find_career_page(store, now, company_name, force_refresh,
                                    env, cached_result)} :
              /\ store' = out.store
              /\ f_call' = [called |-> TRUE, n |-> f_call.n + 1,
                            company_name |-> company_name,
                            force_refresh |-> force_refresh,
                            env |-> env,
                            ret |-> out.ret, log |-> out.log,
                            company_domain |-> out.company_domain,
                            before |-> store, at |-> now,
                            earlier |-> f_prev[company_name]]
              /\ f_prev' = IF out.ret \in {NoResult, StoreError} THEN f_prev
                           ELSE [f_prev EXCEPT ![company_name] =
                                    IF out.log = <<Called("cache")>>
                                    THEN {out.ret.last_verified}
                                    ELSE {now}]
    /\ UNCHANGED <<parsers, d_call, p_call, now, ticks, cache, a_call, requests,
                   s_call, b_call>>

\* time passes
Tick ==
    /\ ticks < MaxTicks
    /\ now' = now + TickDays
    /\ ticks' = ticks + 1
    /\ UNCHANGED <<parsers, d_call, p_call, store, f_call, f_prev,
                   cache, a_call, requests, s_call, b_call>>

InitFinder ==
    /\ InitRest
    /\ s_call = NoScan
    /\ b_call = NoBest
    /\ cache = NoCache
    /\ d_call = [url |-> None, returned |-> <<>>]
    /\ p_call = NoParse

NextFinder == Find \/ Tick

SpecFinder == InitFinder /\ [][NextFinder]_vars

\* how many keyphrases that name a skill and how many keywords KeyBERT gives
MaxSkills == 20
MaxKeywords == 20

\* n keyphrases that name a skill; m keywords
Phrases(n) == [i \in 1..n |-> SkillPhrases[((i - 1) % Len(SkillPhrases)) + 1]]
KeywordList(m) == [i \in 1..m |-> IF i % 2 = 1 THEN "hiring" ELSE "team"]

\* what the analyzer finds of company and title, and the hints it is given:
\* both found; none found and both hinted; none found, none hinted
ScanVariants ==
    { [company_name |-> "Acme Inc", job_title |-> "Backend Engineer",
       title |-> None, company_guess |-> None],
      [company_name |-> None, job_title |-> None,
       title |-> "Engineer", company_guess |-> "Acme"],
      [company_name |-> None, job_title |-> None,
       title |-> None, company_guess |-> None] }

\* analyzer.analyze(content, None, title, company_guess)
Scan ==
    /\ ~s_call.called
    /\ \E out \in {analyze_text(s_call.content, s_call.nlp, s_call.title,
                                 s_call.company_guess, s_call.fault)} :
           s_call' = [s_call EXCEPT !.called = TRUE, !.result = out]
    /\ UNCHANGED <<parsers, d_call, p_call, store, now, ticks, f_call, f_prev,
                   cache, a_call, requests, b_call>>

\* a call that is still to be made
ScanCall(content, v, fault, noise, n, m) ==
    [called |-> FALSE, content |-> content, title |-> v.title,
     company_guess |-> v.company_guess, fault |-> fault, result |-> None,
     nlp |-> [company_name  |-> v.company_name,
              job_title     |-> v.job_title,
              skill_phrases |-> (IF noise THEN <<NoisePhrase>> ELSE <<>>) \o Phrases(n),
              keywords      |-> KeywordList(m)]]

\* the calls in which no extraction raises, and those in which the
\* extraction of one field does
InitScan ==
    /\ InitRest
    /\ b_call = NoBest
    /\ cache = NoCache
    /\ d_call = [url |-> None, returned |-> <<>>]
    /\ p_call = NoParse
    /\ s_call \in
          {ScanCall(content, v, None, noise, n, m) :
              content \in ScanTexts, v \in ScanVariants, noise \in BOOLEAN,
              n \in 0..MaxSkills, m \in 0..MaxKeywords}
          \cup
          {ScanCall(content, v, fault, noise, n, m) :
              content \in ScanTexts, v \in ScanVariants, fault \in Fields,
              noise \in BOOLEAN, n \in 0..1, m \in 0..1}

NextScan == Scan

SpecScan == InitScan /\ [][NextScan]_vars

\* how many results the list given to _find_best_career_url holds at most
MaxResults == 2

\* more search results: a second careers page with the score of the first,
\* a page whose url alone names a career, a page whose title alone names
\* the company
CareersTwin  == [link |-> "https://acme.com/jobs",
                 title |-> "Jobs at Acme", snippet |-> ""]
UrlOnlyItem  == [link |-> "https://acme.com/x-career",
                 title |-> "Welcome", snippet |-> "careers at acme"]
NameOnlyItem == [link |-> "https://acme.com/workplace",
                 title |-> "ACME", snippet |-> ""]

Candidates == {JobBoardItem, NoLinkItem, AboutItem, CareersItem, JobsItem,
               CareersTwin, UrlOnlyItem, NameOnlyItem}

\* the lists of at most n candidates
RECURSIVE ResultLists(_)
ResultLists(n) ==
    IF n = 0 THEN {<<>>}
    ELSE ResultLists(n - 1) \cup
         {Append(list, item) : list \in {l \in ResultLists(n - 1) : Len(l) = n - 1},
                               item \in Candidates}

\* the companies _find_best_career_url is called for
ScoredCompanies == {"Acme Inc", "Globex"}

\* _find_best_career_url(search_results, company_name, is_targeted): the
\* scores _score_career_url returns for the results, and what is returned
FindBest ==
    /\ ~b_call.called
    /\ \E scores \in {[i \in 1..Len(b_call.search_results) |->
                          score_career_url(b_call.search_results[i].link,
                                           b_call.search_results[i].title,
                                           b_call.search_results[i].snippet,
                                           b_call.company_name, b_call.is_targeted)]} :
       \E out \in {find_best_career_url(b_call.search_results, b_call.company_name,
                                         b_call.is_targeted)} :
           b_call' = [b_call EXCEPT !.called = TRUE, !.scores = scores, !.returned = out]
    /\ UNCHANGED <<parsers, d_call, p_call, store, now, ticks, f_call, f_prev,
                   cache, a_call, requests, s_call>>

InitBest ==
    /\ InitRest
    /\ cache = NoCache
    /\ d_call = [url |-> None, returned |-> <<>>]
    /\ p_call = NoParse
    /\ s_call = NoScan
    /\ b_call \in {[called |-> FALSE, search_results |-> list,
                     company_name |-> company_name, is_targeted |-> is_targeted,
                     scores |-> <<>>, returned |-> NoResult] :
                        list \in ResultLists(MaxResults),
                        company_name \in ScoredCompanies, is_targeted \in BOOLEAN}

NextBest == FindBest

SpecBest == InitBest /\ [][NextBest]_vars

\* how many /analyze requests are handled
MaxRequests == 2

\* POST /analyze with some request, in some world
Analyze ==
    /\ requests < MaxRequests
    /\ \E job_request \in Requests, world \in Worlds :
       \E out \in analyze_job_posting(job_request, world, cache, store, now) :
          /\ cache' = out.cache
          /\ store' = out.store
          /\ a_call' = [called |-> TRUE, request |-> job_request, world |-> world,
                        status |-> out.status, response |-> out.response,
                        parser |-> out.parser, ran |-> out.ran,
                        cache_before |-> cache, store_before |-> store, at |-> now]
          /\ requests' = requests + 1
    /\ UNCHANGED <<parsers, d_call, p_call, now, ticks, f_call, f_prev, s_call, b_call>>

\* the service after startup: redis was reached, or it was not
InitAnalyze ==
    /\ InitRest
    /\ s_call = NoScan
    /\ b_call = NoBest
    /\ d_call = [url |-> None, returned |-> <<>>]
    /\ p_call = NoParse
    /\ cache \in {[client |-> client, entries |-> {}] : client \in BOOLEAN}

NextAnalyze == Analyze \/ Tick

SpecAnalyze == InitAnalyze /\ [][NextAnalyze]_vars

-----------------------------------------------------------------------------
(* Claims about the /analyze handler                                       *)
(* They are stated on the latest request (a_call): the request, the world  *)
(* it ran in, the cache and the table before it, the calls it made (ran).  *)

\* how often the latest request made a call
Ran(call) == Cardinality({i \in 1..Len(a_call.ran) : a_call.ran[i] = call})

\* the latest request passed the empty-content check and missed the cache
ReachedExtraction ==
    /\ a_call.called
    /\ ~prepared[a_call.request].empty
    /\ app_get_from_cache(a_call.cache_before, a_call.world.redis_get,
                          prepared[a_call.request].cache_key, a_call.at) = NoResult

\* the parser the dispatcher returns for the url of the latest request
Dispatched == Dispatch(a_call.request)

\* C1 as claimed: for every request that passes the empty-content check and
\* misses the cache, if the dispatcher returns a parser for the url, that
\* parser's parse is the only extraction path that runs; otherwise the
\* generic analyzer runs and no parser; exactly one of the two paths runs.
C1_ParserRunsWhenDispatched ==
    ReachedExtraction =>
        /\ Ran("parse") + Ran("analyze") = 1
        /\ Dispatched # None => Ran("parse") = 1 /\ a_call.parser = Dispatched
        /\ Dispatched = None => Ran("analyze") = 1

\* C1 as amended: for every request that passes the empty-content check and
\* misses the cache, the parser the dispatcher returns runs, and the analyzer
\* does not, if the request also carries a non-empty rawHTML; if the
\* dispatcher returns no parser or rawHTML is absent or empty, the generic
\* analyzer runs over content and no parser; exactly one of the two runs.
C1_ParserRunsOnMarkupOnly ==
    ReachedExtraction =>
        /\ Ran("parse") + Ran("analyze") = 1
        /\ a_call.parser = Dispatched
        /\ (Dispatched # None /\ Truthy(a_call.request.rawHTML)) => Ran("parse") = 1
        /\ (Dispatched = None \/ ~Truthy(a_call.request.rawHTML)) => Ran("analyze") = 1

\* C1 witness: the dispatcher returned a parser for the url of a request
\* without rawHTML, and the analyzer ran
C1_Witness ==
    /\ ReachedExtraction
    /\ Dispatched = "LinkedInParser"
    /\ a_call.request.rawHTML = None
    /\ Ran("analyze") = 1 /\ Ran("parse") = 0
    /\ a_call.status = 200

-----------------------------------------------------------------------------
(* Claims about the dispatcher                                             *)

\* the host of a url (urlparse(url).hostname): the network location without
\* userinfo and port, lower-cased
Hostname(url) ==
    LET n    == Netloc(url)
        at   == {i \in 1..Len(n) : CharAt(n, i) = "@"}
        h    == IF at = {} THEN n
                ELSE SubSeq(n, (CHOOSE i \in at : \A j \in at : j <= i) + 1, Len(n))
        c    == FirstOf(h, ":", 1)
    IN  Lower(IF c = 0 THEN h ELSE SubSeq(h, 1, c - 1))

\* the parser the registration order LinkedIn, Indeed selects by the host
SelectedByHost(url) ==
    IF url = None \/ url = "" THEN None
    ELSE IF Contains(Hostname(url), "linkedin.com") THEN "LinkedInParser"
    ELSE IF Contains(Hostname(url), "indeed.com") THEN "IndeedParser"
    ELSE None

\* C2: every get_parser(url) call returns the first parser in registration
\* order (LinkedIn, then Indeed) whose site domain is a substring of the
\* url's host and of nothing else in the url, returns nothing for an absent
\* or empty url or when no parser matches, and leaves the parser list as
\* it was, so that calls with the same url return the same parser.
C2_SelectsByHostOnly ==
    /\ parsers = <<"LinkedInParser", "IndeedParser">>
    /\ \A k \in 1..Len(d_call.returned) :
          d_call.returned[k] = SelectedByHost(d_call.url)

-----------------------------------------------------------------------------
(* Claims about the career page resolver                                   *)
(* They are stated on the latest call (f_call): its arguments, the         *)
(* environment it ran in, the table before it (before) and after it        *)
(* (store), and the log of the service calls it made.                      *)

\* per company name and environment: the domain the lookup gives and, for
\* every query a call may issue, its text and whether its answer holds a
\* result that qualifies
queries ==
    [company_name \in CompanyNames, env \in Envs |->
        LET domain == clearbit_domain_lookup(env.clearbit)
        IN  [domain   |-> domain,
             targeted |-> IF Truthy(domain)
                          THEN [i \in 1..Len(targeted_queries(domain)) |->
                                  [query  |-> targeted_queries(domain)[i],
                                   yields |-> find_best_career_url(
                                                 google_search(env.targeted[i]),
                                                 company_name, TRUE) # NoResult]]
                          ELSE <<>>,
             broad    |-> [i \in 1..Len(broad_queries(company_name)) |->
                              [query  |-> broad_queries(company_name)[i],
                               yields |-> find_best_career_url(
                                             google_search(env.broad[i]),
                                             company_name, FALSE) # NoResult]]]]

\* the queries of the latest call
Q == queries[f_call.company_name, f_call.env]

\* the positions of a step in the log of the latest call
StepsOf(step) == {i \in 1..Len(f_call.log) : f_call.log[i].step = step}

\* the order of the steps
Rank(step) ==
    CASE step = "cache" -> 1 [] step = "domain" -> 2 [] step = "targeted" -> 3
      [] step = "broad" -> 4 [] step = "persist" -> 5

\* the stored entries that the cache lookup of the latest call found
FoundInStore == CacheRows(f_call.before, f_call.at, f_call.company_name)

\* the latest call ended at its cache lookup: an entry was found, or the
\* store could not be read
StopsAtCache ==
    ~f_call.force_refresh /\ (~f_call.env.store_read \/ FoundInStore # {})

\* the latest call returned a result
ReturnedResult == f_call.ret \notin {NoResult, StoreError}

\* the queries of one search that the latest call issued are the first n
\* queries of the search, none but the last of them holds a qualifying
\* result, and the search ended early only on a qualifying result
IssuedInOrder(step, all) ==
    LET n == Cardinality(StepsOf(step))
    IN  /\ n <= Len(all)
        /\ \A i \in StepsOf(step) : \A j \in StepsOf(step) :
              i < j => \A k \in i..j : k \in StepsOf(step)
        /\ \A i \in StepsOf(step) :
              f_call.log[i].query = all[i - MinOf(StepsOf(step)) + 1].query
        /\ \A k \in 1..(n - 1) : ~all[k].yields
        /\ (n >= 1 /\ n < Len(all)) => all[n].yields

\* a targeted query that the latest call issued holds a qualifying result
TargetedYields ==
    \E k \in 1..Cardinality(StepsOf("targeted")) : Q.targeted[k].yields

\* a broad query that the latest call issued holds a qualifying result
BroadYields ==
    \E k \in 1..Cardinality(StepsOf("broad")) : Q.broad[k].yields

\* C3: every find_career_page call performs its steps in the order cache
\* lookup (only without force_refresh), domain lookup, targeted queries (only
\* if a domain was found), broad queries (if and only if the targeted step
\* produced no result), persist; once a step yields a result no later lookup
\* or search is made, and a cache hit returns before any lookup or search.
C3_StrictOrder ==
    f_call.called =>
        /\ \A i \in 1..Len(f_call.log) : \A j \in 1..Len(f_call.log) :
              i < j => Rank(f_call.log[i].step) <= Rank(f_call.log[j].step)
        /\ Cardinality(StepsOf("cache")) = IF f_call.force_refresh THEN 0 ELSE 1
        /\ StopsAtCache => Len(f_call.log) = 1
        /\ ~StopsAtCache =>
              /\ Cardinality(StepsOf("domain")) = 1
              /\ StepsOf("targeted") # {} <=> Truthy(Q.domain)
              /\ IssuedInOrder("targeted", Q.targeted)
              /\ StepsOf("broad") # {} <=> ~TargetedYields
              /\ IssuedInOrder("broad", Q.broad)
              /\ Cardinality(StepsOf("persist")) =
                    IF TargetedYields \/ BroadYields THEN 1 ELSE 0

\* C3 witness: a call that looked into the store, looked up the domain,
\* issued every targeted query in vain, found a page with its second broad
\* query, and persisted it
C3_Witness ==
    /\ f_call.called /\ ~f_call.force_refresh
    /\ [i \in 1..Len(f_call.log) |-> f_call.log[i].step] =
          <<"cache", "domain", "targeted", "targeted", "targeted", "targeted",
            "broad", "broad", "persist">>
    /\ ReturnedResult /\ f_call.ret.source = "broad_google"

StoredUnderName(table) == {row \in table : row.company_name = f_call.company_name}

\* C5: whenever find_career_page returns a result of the targeted or the
\* broad search, the store holds, for that company name, one entry with the
\* career_url, source and confidence_score returned and last_verified = now,
\* and is otherwise as before; when no step yields a result the call
\* returns nothing and the store is as before.
C5_ResultsArePersisted ==
    f_call.called =>
        /\ (~StopsAtCache /\ ReturnedResult) =>
              /\ f_call.ret.source \in {"targeted_google_clearbit", "broad_google"}
              /\ \E row \in store :
                    /\ StoredUnderName(store) = {row}
                    /\ row.career_url = f_call.ret.career_url
                    /\ row.source = f_call.ret.source
                    /\ row.confidence_score = f_call.ret.confidence_score
                    /\ row.last_verified = f_call.at
              /\ store \ StoredUnderName(store) = f_call.before \ StoredUnderName(f_call.before)
        /\ (~StopsAtCache /\ ~TargetedYields /\ ~BroadYields) =>
              f_call.ret = NoResult /\ store = f_call.before
        /\ f_call.ret = NoResult => store = f_call.before

\* C5 witness: a qualifying targeted result is returned and replaces the
\* entry the store held for the company name
C5_Witness ==
    /\ f_call.called /\ ReturnedResult /\ ~StopsAtCache
    /\ f_call.ret.source = "targeted_google_clearbit"
    /\ StoredUnderName(f_call.before) # {}
    /\ \E row \in store :
          /\ row.company_name = f_call.company_name
          /\ row.career_url = f_call.ret.career_url
          /\ row.confidence_score = f_call.ret.confidence_score
          /\ row.last_verified = f_call.at
          /\ row \notin f_call.before

\* the entries that match the company name of the latest call as the cache
\* lookup matches them, whatever their case
StoredForCompany(table) ==
    {row \in table : ilike[row.company_name, f_call.company_name]}

\* C6: a stored entry verified more than 30 days ago is never returned; the
\* call that finds only such entries for its company goes on to the domain
\* lookup and the searches, and if they give a result, the store then holds
\* one entry for the company, verified now: the old entry is replaced and
\* no second one is added.
C6_StaleEntriesReplaced ==
    f_call.called =>
        /\ (StopsAtCache /\ ReturnedResult) =>
              f_call.at - f_call.ret.last_verified <= CacheDays
        /\ ( /\ StoredForCompany(f_call.before) # {}
             /\ \A row \in StoredForCompany(f_call.before) :
                   f_call.at - row.last_verified > CacheDays
             /\ (f_call.force_refresh \/ f_call.env.store_read) ) =>
              /\ StepsOf("domain") # {}
              /\ ReturnedResult =>
                    \E row \in store : /\ StoredForCompany(store) = {row}
                                       /\ row.last_verified = f_call.at

\* the normalized company name: legal suffix stripped, lower case
normalized == [company_name \in CompanyNames |-> Lower(clean_company_name(company_name))]

\* C7: the store holds at most one entry per normalized company name
\* (legal suffix stripped, case ignored): names that differ only in case or
\* suffix read and write the same entry.
C7_OneEntryPerNormalizedName ==
    \A r1 \in store : \A r2 \in store :
        normalized[r1.company_name] = normalized[r2.company_name] => r1 = r2

-----------------------------------------------------------------------------
(* Claims about the parsers                                                *)

\* the precedence the company-name chain is to follow
ChainOrder == <<"json_ld", "css_selectors", "meta_tags", "text_patterns">>

\* what step k of the chain finds on the page of the parse call
StepValue(k) == CompanyMethod(ChainOrder[k], p_call.page)

\* the steps of the chain that find a name on the page
Successful == {k \in 1..4 : Truthy(StepValue(k))}

\* C8: LinkedInParser derives the company name by trying JSON-LD metadata,
\* CSS selectors, meta tags and title, free-text patterns in this order; a
\* step is tried only if every earlier step produced nothing, the first
\* non-empty value is returned, and the result is nothing only if all four
\* fail (so a JSON-LD company wins over a conflicting "company: X" line).
C8_LinkedInChainPrecedence ==
    (p_call.called /\ p_call.parser = "LinkedInParser") =>
        /\ \E n \in 1..4 : p_call.tried = SubSeq(ChainOrder, 1, n)
        /\ \A k \in 1..Len(p_call.tried) : \A j \in 1..(k - 1) : j \notin Successful
        /\ IF Successful = {}
           THEN p_call.result.company_name = None /\ Len(p_call.tried) = 4
           ELSE /\ p_call.result.company_name = StepValue(MinOf(Successful))
                /\ Len(p_call.tried) = MinOf(Successful)

\* C8 witness: a LinkedIn page with a JSON-LD company and a different
\* acceptable "company: X" line; the JSON-LD value was returned
C8_Witness ==
    /\ p_call.called /\ p_call.parser = "LinkedInParser"
    /\ Truthy(StepValue(1)) /\ Truthy(StepValue(4))
    /\ StepValue(1) # StepValue(4)
    /\ p_call.result.company_name = StepValue(1)
    /\ p_call.tried = <<"json_ld">>

\* the company evidence the claim C9 names: structured metadata, a meta tag
\* or title, a "company: X" line
OtherEvidence == Successful \cap {1, 3, 4}

\* the elements of the page that carry Indeed's company-name attribute
IndeedCompanyElements ==
    {i \in 1..Len(p_call.page.elements) :
        "[data-testid=\"inlineHeader-companyName\"]" \in p_call.page.elements[i].sels}

\* C9 as claimed: every parser variant, LinkedIn and Indeed alike, extracts
\* the company name through the four-step chain, stopping at the first
\* successful method, so that a posting whose company evidence is structured
\* metadata, a meta tag or a "company: X" line yields a company name.
C9_EveryVariantUsesChain ==
    p_call.called =>
        /\ \E n \in 1..4 : p_call.tried = SubSeq(ChainOrder, 1, n)
        /\ (OtherEvidence # {} => Truthy(p_call.result.company_name))

\* C9 as amended: the LinkedIn variant runs the chain and finds a name
\* whenever structured metadata, a meta tag or a text line gives one; the
\* Indeed variant calls no method of the chain: its company name is the text
\* of the first element with data-testid "inlineHeader-companyName", and
\* nothing when the page has no such element, whatever else the page holds.
C9_ChainOnlyInLinkedIn ==
    p_call.called =>
        /\ p_call.parser = "LinkedInParser" =>
              /\ \E n \in 1..4 : p_call.tried = SubSeq(ChainOrder, 1, n)
              /\ (OtherEvidence # {} => Truthy(p_call.result.company_name))
        /\ p_call.parser = "IndeedParser" =>
              /\ p_call.tried = <<>>
              /\ p_call.result.company_name =
                    IF IndeedCompanyElements = {} THEN None
                    ELSE Strip(p_call.page.elements[MinOf(IndeedCompanyElements)].text)

\* C9 witness: an Indeed page with JSON-LD, meta and text evidence of the
\* company but without the company element: no company name
C9_Witness ==
    /\ p_call.called /\ p_call.parser = "IndeedParser"
    /\ {1, 3, 4} \subseteq Successful
    /\ IndeedCompanyElements = {}
    /\ p_call.result.company_name = None

\* C10: every result a parser produces, from whatever markup, has
\* success = true and confidence_scores["parsing"] equal to exactly 0.95.
C10_ParsingConfidence ==
    p_call.called =>
        /\ p_call.result.success = TRUE
        /\ p_call.result.confidence_scores = [parsing |-> 95]

\* C10 witness: a parser parsed a page from which no field could be
\* extracted, and its result has parsing confidence 0.95
C10_Witness ==
    /\ p_call.called
    /\ p_call.result.company_name = None /\ p_call.result.job_title = None
    /\ p_call.result.skills = <<>> /\ p_call.result.keywords = <<>>
    /\ p_call.result.confidence_scores.parsing = 95

-----------------------------------------------------------------------------
(* Claims about the generic analyzer                                       *)
(* They are stated on the analyze call (s_call): the content, what the     *)
(* language models gave (nlp), the hints, and the result.                  *)

\* the analyze call returned a result
Analyzed == s_call.called /\ s_call.result # AnalysisFailed

\* a field of a result holds a value
Present(value) == value # None /\ value # ""

\* count * step, at most 0.9 (in hundredths)
Capped(count, step) == IF count * step < 90 THEN count * step ELSE 90

\* C12: for every Generic Analyzer output, confidence_scores is exactly:
\* company_name 0.8 if the returned company_name is present, else 0.0;
\* job_title 0.9 if the returned job_title is present, else 0.0; skills
\* min(0.9, 0.1 * number of returned skills); keywords min(0.9, 0.05 * number
\* of returned keywords), for every count from 0 through 20.
C12_AnalyzerConfidence ==
    Analyzed =>
        s_call.result.confidence_scores =
            [company_name |-> IF Present(s_call.result.company_name) THEN 80 ELSE 0,
             job_title    |-> IF Present(s_call.result.job_title) THEN 90 ELSE 0,
             skills       |-> Capped(Len(s_call.result.skills), 10),
             keywords     |-> Capped(Len(s_call.result.keywords), 5)]

\* C12 witness: an output with 20 skills and 20 keywords, without company
\* name and job title: the scores are 0.0, 0.0, 0.9 and 0.9
C12_Witness ==
    /\ Analyzed
    /\ Len(s_call.result.skills) = 20 /\ Len(s_call.result.keywords) = 20
    /\ s_call.result.company_name = None /\ s_call.result.job_title = None
    /\ s_call.result.confidence_scores =
          [company_name |-> 0, job_title |-> 0, skills |-> 90, keywords |-> 90]

-----------------------------------------------------------------------------
(* Claims about the results of /analyze                                    *)

\* the latest request was answered with a result
Answered == a_call.called /\ a_call.status = 200

\* the confidence scores of the latest answer
Scores == a_call.response.confidence_scores

\* C11 as claimed: in every result the pipeline produces, on the parser path
\* or on the generic analyzer path, every value of confidence_scores lies in
\* the range from 0.0 to 0.9.
C11_EveryScoreAtMost09 ==
    Answered => \A field \in DOMAIN Scores : Scores[field] >= 0 /\ Scores[field] <= 90

\* C11 as amended: a result of the generic analyzer has the four scores
\* company_name, job_title, skills and keywords, each from 0.0 to 0.9; a
\* result of a parser has the one score parsing, which is 0.95 and so lies
\* above 0.9; a cached result is of one of the two kinds.
C11_AnalyzerScoresAtMost09 ==
    Answered =>
        /\ Ran("analyze") = 1 =>
              /\ DOMAIN Scores = {"company_name", "job_title", "skills", "keywords"}
              /\ \A field \in DOMAIN Scores : Scores[field] >= 0 /\ Scores[field] <= 90
        /\ Ran("parse") = 1 => Scores = [parsing |-> 95]
        /\ \/ Scores = [parsing |-> 95]
           \/ /\ DOMAIN Scores = {"company_name", "job_title", "skills", "keywords"}
              /\ \A field \in DOMAIN Scores : Scores[field] >= 0 /\ Scores[field] <= 90

\* C11 witness: a request answered by a parser; its score lies above 0.9
C11_Witness ==
    /\ Answered /\ Ran("parse") = 1
    /\ "parsing" \in DOMAIN Scores /\ Scores["parsing"] > 90

-----------------------------------------------------------------------------
(* Claims about the experience level and the skills a parser gives         *)

\* the full text of the page of the parse call, and the text of its Indeed
\* job description (empty without one), in lower case
page_texts ==
    [page \in Pages |->
        [full        |-> Lower(get_text(page)),
         description |->
            LET hits == {i \in 1..Len(page.elements) :
                            page.elements[i].sels \cap {"#jobDescriptionText",
                                ".jobsearch-jobDescriptionText"} # {}}
            IN  IF hits = {} THEN "" ELSE Lower(page.elements[MinOf(hits)].text)]]

FullText == page_texts[p_call.page].full
IndeedDescription == page_texts[p_call.page].description

\* the tiers of indicators, in their precedence
Tiers == << [label |-> "Senior",    words |-> {"senior", "sr.", "lead", "principal"}],
            [label |-> "Junior",    words |-> {"junior", "jr.", "entry level", "graduate"}],
            [label |-> "Mid-Level", words |-> {"mid-level", "intermediate", "3-5 years"}] >>

\* the tiers that have an indicator in a text
TiersIn(text) == {k \in 1..Len(Tiers) : \E word \in Tiers[k].words : Contains(text, word)}

\* the label of the first tier with an indicator in the text
LevelOf(text) ==
    IF TiersIn(text) = {} THEN "Not specified" ELSE Tiers[MinOf(TiersIn(text))].label

\* C13 as claimed: on the parser path the experience level is the label of
\* the first of the tiers senior, junior, mid-level that has an indicator in
\* the full text of the posting, and "Not specified" when none has.
C13_LevelFromFullText ==
    p_call.called => p_call.result.experience_level = LevelOf(FullText)

\* C13 as amended: the precedence senior, junior, mid-level and the label
\* "Not specified" hold for the text a parser scans: the LinkedIn parser
\* scans the full text of the page, the Indeed parser only the text of the
\* job description element (no text when the page has none).
C13_LevelFromScannedText ==
    p_call.called =>
        /\ p_call.parser = "LinkedInParser" =>
              p_call.result.experience_level = LevelOf(FullText)
        /\ p_call.parser = "IndeedParser" =>
              p_call.result.experience_level = LevelOf(IndeedDescription)

\* C13 witness: an Indeed page with a senior indicator outside of its job
\* description and a junior indicator inside: the level is "Junior"
C13_Witness ==
    /\ p_call.called /\ p_call.parser = "IndeedParser"
    /\ 1 \in TiersIn(FullText)
    /\ TiersIn(IndeedDescription) = {2}
    /\ p_call.result.experience_level = "Junior"

-----------------------------------------------------------------------------
(* Claims about the required flag of the skills in the results of /analyze *)

\* the phrases that tell a requirement, and those that tell a preference
RequiredPhrases == {"required", "must have", "essential", "mandatory"}
PreferredPhrases == {"preferred", "nice to have", "bonus", "plus"}

\* whether a text holds one of the phrases, whatever the case
Tells(text, phrases) ==
    Truthy(text) /\ \E phrase \in phrases : Contains(Lower(text), phrase)

\* per request: what its content and its markup tell
told ==
    [job_request \in Requests |->
        [content_requires |-> Tells(job_request.content, RequiredPhrases),
         content_prefers  |-> Tells(job_request.content, PreferredPhrases),
         markup_requires  |-> Tells(job_request.rawHTML, RequiredPhrases),
         markup_prefers   |-> Tells(job_request.rawHTML, PreferredPhrases)]]

\* a skill of the latest answer is marked required
SomeRequired ==
    \E i \in 1..Len(a_call.response.skills) : a_call.response.skills[i].is_required

\* C14: on both extraction paths a skill is marked required only when a
\* required-indicator phrase is found in the text that is read; a skill that
\* stands with a preferred indicator such as "nice to have" in a text
\* without required-indicator phrase is not marked required.
C14_RequiredOnlyWhenTold ==
    Answered =>
        /\ (Ran("analyze") = 1 /\ SomeRequired) => told[a_call.request].content_requires
        /\ (Ran("parse") = 1 /\ SomeRequired) => told[a_call.request].markup_requires

\* C14 witness: the analyzer found skills in a text that says "nice to
\* have" and holds no required-indicator phrase; none is marked required
C14_Witness ==
    /\ Answered /\ Ran("analyze") = 1
    /\ told[a_call.request].content_prefers
    /\ ~told[a_call.request].content_requires
    /\ a_call.response.skills # <<>>
    /\ ~SomeRequired

-----------------------------------------------------------------------------
(* Claims about the required flag of the skills a parser gives            *)

\* the description element a parser scans for skills: linkedin.py:92-97,
\* indeed.py:29-30
DescriptionRead ==
    select_one(p_call.page, IF p_call.parser = "LinkedInParser"
                            THEN linkedin_description ELSE indeed_description)

\* per description: the technical skills with a required-indicator phrase
\* within ContextWindow words of their first mention
required_nearby ==
    [text \in UNION {{options[i].text : i \in 1..Len(options)} : options \in ElementsOptions} |->
        {k \in 1..Len(tech_skills) :
            \E req_word \in required_words :
                Contains(Lower(get_context_around_skill(text, tech_skills[k], ContextWindow)),
                         req_word)}]

\* the names the parsers give the technical skills
skill_names == [k \in 1..Len(tech_skills) |-> TitleCase(tech_skills[k])]

\* C15: on the parser path the is_required flag of each matched skill is
\* decided from the bounded window of words around the mention of that
\* skill: it is true if and only if a required-indicator phrase occurs
\* inside the window.
C15_RequiredFromWindow ==
    (p_call.called /\ DescriptionRead # None) =>
        \A i \in 1..Len(p_call.result.skills) :
            \A k \in 1..Len(tech_skills) :
                p_call.result.skills[i].name = skill_names[k] =>
                    (p_call.result.skills[i].is_required
                        <=> k \in required_nearby[DescriptionRead])

-----------------------------------------------------------------------------
(* Claims about job boards among the search results                        *)

\* the items the search service answers with
SearchItems == {JobBoardItem, NoLinkItem, AboutItem, CareersItem, JobsItem}

\* the job boards a career page is never to be taken from
Blocklist == {"indeed.com", "linkedin.com", "glassdoor.com", "ziprecruiter.com",
              "monster.com", "careerbuilder.com", "simplyhired.com"}

\* the host is a job board or a subdomain of one
HostOnBlocklist(host) ==
    \E board \in Blocklist :
        \/ host = board
        \/ /\ Len(host) > Len(board) + 1
           /\ SubSeq(host, Len(host) - Len(board), Len(host)) = "." \o board

\* the links of the items whose host is on the blocklist
blocked_links ==
    {item.link : item \in {it \in SearchItems :
                              it.link # "" /\ HostOnBlocklist(Lower(Hostname(it.link)))}}

\* per item, company name and mode: the score of the item
item_scores ==
    [item \in SearchItems, company_name \in CompanyNames, is_targeted \in BOOLEAN |->
        score_career_url(item.link, item.title, item.snippet, company_name, is_targeted)]

\* the items of the answers of the environment of the latest call
ItemsAnswered ==
    UNION {{answers[i].items[k] : k \in 1..Len(answers[i].items)} :
              answers \in {f_call.env.targeted, f_call.env.broad}, i \in 1..3}
    \cup {f_call.env.targeted[4].items[k] : k \in 1..Len(f_call.env.targeted[4].items)}

\* C16: the scorer gives 0 for every URL whose host is on the job-board
\* blocklist, whatever career keywords the URL, the title and the snippet
\* hold and in targeted as in broad mode; so no result of find_career_page
\* and no row of the table has a career_url with a blocklisted host.
C16_JobBoardsNeverChosen ==
    f_call.called =>
        /\ \A item \in ItemsAnswered :
              item.link \in blocked_links =>
                  \A is_targeted \in BOOLEAN :
                      item_scores[item, f_call.company_name, is_targeted] = 0
        /\ (f_call.ret \notin {NoResult, StoreError} =>
                f_call.ret.career_url \notin blocked_links)
        /\ \A row \in store : row.career_url \notin blocked_links

\* C16 witness: two targeted queries were answered with a job board page
\* that is rich in career keywords, and the call returned the page that
\* came with it in the second answer
C16_Witness ==
    /\ f_call.called
    /\ f_call.env.targeted[2] = NoCandidates /\ f_call.env.targeted[3] = TitleOnly
    /\ JobBoardItem.link \in blocked_links
    /\ f_call.ret \notin {NoResult, StoreError}
    /\ f_call.ret.source = "targeted_google_clearbit"
    /\ f_call.ret.career_url = AboutItem.link

-----------------------------------------------------------------------------
(* Claims about the failures of /analyze                                   *)

\* the content of the latest request holds nothing but white space
BlankContent ==
    \A i \in 1..Len(a_call.request.content) : IsSpace(CharAt(a_call.request.content, i))

\* C17: a request whose content is empty or only white space is rejected
\* with status 400 and without result; the cache is neither read nor
\* written, no parser, analyzer or career page lookup runs, and the table
\* of career pages stays as it was.
C17_EmptyContentRejected ==
    (a_call.called /\ BlankContent) =>
        /\ a_call.status = 400
        /\ a_call.response = None
        /\ a_call.ran = <<>>
        /\ cache = a_call.cache_before
        /\ store = a_call.store_before

\* C17 witness: a request of white space alone, for a LinkedIn posting
\* with markup, was rejected while the cache held an entry
C17_Witness ==
    /\ a_call.called
    /\ a_call.request.content = " \n"
    /\ Truthy(a_call.request.rawHTML)
    /\ a_call.status = 400
    /\ a_call.cache_before.entries # {}

-----------------------------------------------------------------------------
(* Claims about failures of the career page lookup during /analyze         *)

\* the latest request called find_career_page
ResolverRan == a_call.called /\ Ran("find_career_page") = 1

\* what the extraction and the hints of the latest request give, before
\* the career page is looked up
Unenriched ==
    WithHints(Extract(a_call.parser, a_call.request, a_call.world.models,
                      a_call.world.soup).result, a_call.request)

\* what the lookup and the searches of the latest request find when they run
Discovered == discovered[Unenriched.company_name, a_call.world.finder_env]

\* the store failed during the latest request: the select raised, or a page
\* was discovered and the upsert raised
StoreFailed ==
    \/ ~a_call.world.finder_env.store_read
    \/ /\ a_call.store_before = {}
       /\ Discovered.career_result # NoResult
       /\ ~a_call.world.finder_env.store_write

\* the domain lookup raised during the latest request
LookupRaised ==
    /\ a_call.world.finder_env.store_read
    /\ a_call.store_before = {}
    /\ a_call.world.finder_env.clearbit.raised

\* the answer is that of a request whose lookup found nothing, but for
\* companyUrl
SameButUrl ==
    /\ a_call.status = 200
    /\ a_call.response.success = TRUE
    /\ a_call.response = [Unenriched EXCEPT !.companyUrl = a_call.response.companyUrl]

\* C18, as claimed: if the career page lookup or one of its external calls
\* (store, domain lookup, search) fails during /analyze, the request still
\* returns the extracted result with success = true and companyUrl unset,
\* every other field being as if the lookup had found nothing.
C18_FailuresLeaveUrlUnset ==
    (ResolverRan /\ (StoreFailed \/ LookupRaised)) =>
        SameButUrl /\ a_call.response.companyUrl = None

\* C18, amended: whatever fails in the career page lookup, the request
\* returns the extracted result with success = true and all fields but
\* companyUrl as if nothing had been found.  companyUrl is unset when the
\* store failed; a domain lookup or a search that fails is passed over by
\* the lookup itself, and companyUrl is that of the page the remaining
\* steps find, unset if they find none.
C18_FailuresAreSwallowed ==
    ResolverRan =>
        /\ SameButUrl
        /\ StoreFailed => a_call.response.companyUrl = None
        /\ (~StoreFailed /\ a_call.store_before = {}) =>
              a_call.response.companyUrl =
                  IF Discovered.career_result = NoResult THEN None
                  ELSE Discovered.career_result.career_url

\* C18 witness: the domain lookup raised, the broad search found the jobs
\* site, and the answer carries it
C18_Witness ==
    /\ ResolverRan /\ LookupRaised
    /\ a_call.status = 200 /\ a_call.response.success = TRUE
    /\ a_call.response.companyUrl = JobsItem.link

-----------------------------------------------------------------------------
(* Claims about faults of the extraction during /analyze                   *)

\* the extraction path of the latest request raised: BeautifulSoup did not
\* take the markup given to the parser, or the language models did not run
\* in the analyzer
ExtractionRaised ==
    /\ a_call.called
    /\ \/ Ran("parse") = 1 /\ ~a_call.world.soup
       \/ Ran("analyze") = 1 /\ ~a_call.world.models

\* C19: if the extraction path that was chosen (parser.parse or
\* analyzer.analyze) raises, the request fails as a whole with status 500:
\* no result is returned, find_career_page is not called, and nothing is
\* written to the cache nor to the table of career pages.
C19_ExtractionFaultFailsRequest ==
    ExtractionRaised =>
        /\ a_call.status = 500
        /\ a_call.response = None
        /\ Ran("find_career_page") = 0
        /\ Ran("set_cache") = 0
        /\ cache = a_call.cache_before
        /\ store = a_call.store_before

\* C19 witness: the LinkedIn parser raised on the markup of a posting
\* that names its company, and the request failed
C19_Witness ==
    /\ ExtractionRaised
    /\ a_call.parser = "LinkedInParser" /\ Ran("parse") = 1
    /\ a_call.request.rawHTML = PostingHtml
    /\ a_call.status = 500

-----------------------------------------------------------------------------
(* Claims about faults inside the generic analyzer                         *)

\* what the latest analyze call gives when no extraction raises
Usual == Assemble(Found(s_call.content, s_call.nlp), s_call.title, s_call.company_guess)

\* C20: in the generic analyzer a fault raised inside the extraction of one
\* field (title, company, skills, keywords, experience level or additional
\* details) does not propagate: analyze still returns a successful result
\* in which every other field is extracted as usual.
C20_FieldFaultsContained ==
    (s_call.called /\ s_call.fault # None) =>
        /\ s_call.result # AnalysisFailed
        /\ s_call.result.success = TRUE
        /\ \A field \in Fields \ {s_call.fault} : s_call.result[field] = Usual[field]

-----------------------------------------------------------------------------
(* Claims about the cache of /analyze                                      *)

\* the entries the cache held for the key of the latest request, not yet
\* expired when it came
Held ==
    {e \in a_call.cache_before.entries :
        /\ e.key = prepared[a_call.request].cache_key
        /\ (a_call.at - e.set_at) * 86400 < e.ttl}

\* the latest request, with content, found the cache holding an entry for
\* its key
CacheHit ==
    /\ a_call.called
    /\ ~prepared[a_call.request].empty
    /\ a_call.cache_before.client /\ a_call.world.redis_get
    /\ Held # {}

\* the entries the latest request wrote
Written == cache.entries \ a_call.cache_before.entries

\* C21: when the cache holds an entry for the key of the (content, url) of
\* a request, /analyze returns that entry and skips the pipeline: no parser,
\* analyzer or career page lookup runs and the entry is not rewritten.  An
\* entry is written only after a pipeline run that completed without
\* failure, and with a time to live of 3600 seconds.
C21_CacheHitSkipsPipeline ==
    a_call.called =>
        /\ CacheHit =>
              /\ a_call.status = 200
              /\ \E e \in Held : a_call.response = e.value
              /\ Ran("parse") = 0 /\ Ran("analyze") = 0
              /\ Ran("find_career_page") = 0 /\ Ran("set_cache") = 0
              /\ cache = a_call.cache_before
              /\ store = a_call.store_before
        /\ \A e \in Written :
              /\ ~CacheHit
              /\ a_call.status = 200
              /\ Ran("parse") + Ran("analyze") = 1
              /\ e.key = prepared[a_call.request].cache_key
              /\ e.value = a_call.response
              /\ e.ttl = 3600

\* C21 witness: a request with markup for the LinkedIn parser found its
\* key in the cache and was answered from it
C21_Witness ==
    /\ CacheHit
    /\ Truthy(a_call.request.rawHTML) /\ Dispatch(a_call.request) = "LinkedInParser"
    /\ a_call.status = 200
    /\ a_call.ran = <<"get_from_cache">>

-----------------------------------------------------------------------------
(* Claims about the hints of a request                                     *)

\* the latest request was answered by an extraction, not from the cache
Extracting == Answered /\ Ran("parse") + Ran("analyze") = 1

\* what the extraction path of the latest request gave
Extraction ==
    Extract(a_call.parser, a_call.request, a_call.world.models, a_call.world.soup).result

\* the extracted value when there is one, the hint otherwise
Backfilled(value, hint) ==
    IF Truthy(value) THEN value ELSE IF Truthy(hint) THEN hint ELSE value

\* C22: on either extraction path the job_title of the response is the
\* extracted title when the extraction gave one and the title hint of the
\* caller otherwise, and company_name is the extracted name when there is
\* one and the company guess of the caller otherwise: a hint never replaces
\* an extracted value, and a field is absent only when the extracted value
\* and the hint both are.
C22_HintsOnlyBackfill ==
    Extracting =>
        /\ a_call.response.job_title =
              Backfilled(Extraction.job_title, a_call.request.title)
        /\ a_call.response.company_name =
              Backfilled(Extraction.company_name, a_call.request.companyGuess)
        /\ ~Truthy(a_call.response.job_title) <=>
              ~Truthy(Extraction.job_title) /\ ~Truthy(a_call.request.title)
        /\ ~Truthy(a_call.response.company_name) <=>
              ~Truthy(Extraction.company_name) /\ ~Truthy(a_call.request.companyGuess)

\* C22 witness: the parser found neither title nor company in the markup,
\* and the response carries both hints
C22_Witness ==
    /\ Extracting /\ Ran("parse") = 1
    /\ Extraction.job_title = None /\ Extraction.company_name = None
    /\ a_call.response.job_title = "Engineer"
    /\ a_call.response.company_name = "acme inc"

-----------------------------------------------------------------------------
(* Claims about the choice among the results of one query                  *)
(* They are stated on the _find_best_career_url call (b_call): its result  *)
(* list, the scores _score_career_url gave, and what was returned.         *)

\* the results of the call with a positive score
Positive == {i \in 1..Len(b_call.search_results) : b_call.scores[i] > 0}

\* the score a result must have to be returned
Needed == IF b_call.is_targeted THEN 30 ELSE 50

\* result i has the highest score, and no result before it has that score
FirstHighest(i) ==
    /\ \A j \in Positive : b_call.scores[j] <= b_call.scores[i]
    /\ \A j \in Positive : j < i => b_call.scores[j] < b_call.scores[i]

\* C23: for the result list of one query, _find_best_career_url returns
\* the candidate with the highest score among those with a score above 0,
\* the earliest in the list when several share the highest score, and
\* returns it only if its score is at least 30 in targeted mode and at
\* least 50 in broad mode; otherwise it returns nothing.
C23_FirstHighestAboveThreshold ==
    b_call.called =>
        IF \E i \in Positive : FirstHighest(i) /\ b_call.scores[i] >= Needed
        THEN \E i \in Positive :
                /\ FirstHighest(i)
                /\ b_call.returned = [score |-> b_call.scores[i],
                                      url   |-> b_call.search_results[i].link,
                                      title |-> b_call.search_results[i].title]
        ELSE b_call.returned = NoResult

\* C23 witness: two different pages share the highest score, and the one
\* that stands first in the list is returned
C23_Witness ==
    /\ b_call.called
    /\ Len(b_call.search_results) = 2
    /\ b_call.scores[1] = b_call.scores[2] /\ b_call.scores[1] > 0
    /\ b_call.search_results[1].link # b_call.search_results[2].link
    /\ b_call.returned # NoResult
    /\ b_call.returned.url = b_call.search_results[1].link

-----------------------------------------------------------------------------
(* Claims about the score of a search result                               *)

\* the company names of the calls, normalized
NormalName == [company_name \in ScoredCompanies |->
                  IF company_name = "Acme Inc" THEN "acme" ELSE "globex"]

\* whether one of the words stands in the text, whatever the case
Names(text, words) == \E word \in words : Contains(Lower(text), word)

\* per candidate: what its url and its title hold
traits ==
    [item \in Candidates |->
        [rejected |-> \/ item.link = ""
                      \/ HostOnBlocklist(Lower(Hostname(item.link)))
                      \/ ~Names(item.link \o " " \o item.title,
                                {"career", "jobs", "hiring", "employment", "work", "join"}),
         term     |-> Names(item.link, {"career", "jobs", "hiring"}),
         pattern  |-> Names(item.link, {"/careers", "/jobs", "/hiring", "careers.", "jobs."}),
         official |-> Names(item.title, {"careers at", "jobs at", "work at", "join our team"}),
         named    |-> {company_name \in ScoredCompanies :
                          Names(item.title, {NormalName[company_name]})}]]

\* the points of a candidate: four values, each with its own condition
Points(item, company_name, term, name, pattern, official) ==
    (IF traits[item].term THEN term ELSE 0)
  + (IF company_name \in traits[item].named THEN name ELSE 0)
  + (IF traits[item].pattern THEN pattern ELSE 0)
  + (IF traits[item].official THEN official ELSE 0)

\* C24: the score of every candidate that is not rejected (url not empty,
\* host not on the blocklist, a career keyword in url or title) is the sum
\* of 50 if the url names career, jobs or hiring, 75 if the normalized
\* company name stands in the title, 40 if the url has a career path
\* pattern and 60 if the title has an official phrase, the four values
\* being 60, 90, 48 and 72 in targeted mode, which adds a flat 30; the
\* score is an integer.
C24_ScoreIsSumOfPoints ==
    b_call.called =>
        \A i \in 1..Len(b_call.search_results) :
            /\ b_call.scores[i] \in Nat
            /\ ~traits[b_call.search_results[i]].rejected =>
                  b_call.scores[i] =
                      IF b_call.is_targeted
                      THEN Points(b_call.search_results[i], b_call.company_name,
                                  60, 90, 48, 72) + 30
                      ELSE Points(b_call.search_results[i], b_call.company_name,
                                  50, 75, 40, 60)

\* C24 witness: in targeted mode a page that earns all four values scores
\* 300, next to a page that earns none and scores 30
C24_Witness ==
    /\ b_call.called /\ b_call.is_targeted
    /\ b_call.search_results = <<CareersItem, AboutItem>>
    /\ b_call.company_name = "Acme Inc"
    /\ b_call.scores = <<300, 30>>

-----------------------------------------------------------------------------
(* Claims about retries of the external calls                              *)

\* the positions of the searches in the log of the latest call
Searches == StepsOf("targeted") \cup StepsOf("broad")

\* the answer the search at position i of the log got: the k-th query of a
\* search gets the k-th answer of the environment
AnswerAt(i) ==
    IF f_call.log[i].step = "targeted"
    THEN f_call.env.targeted[Cardinality({j \in StepsOf("targeted") : j <= i})]
    ELSE f_call.env.broad[Cardinality({j \in StepsOf("broad") : j <= i})]

\* the search failed, or returned no result at all
NoAnswer(answer) == ~answer.ok \/ answer.items = <<>>

\* C25: no external call is retried.  Within one find_career_page call the
\* domain lookup is made at most once and every search query is issued at
\* most once, at most 4 targeted and 3 broad queries; a search that failed
\* or returned nothing is final, and the call goes on with the next query
\* or step, or returns nothing after the last query.
C25_NoRetries ==
    f_call.called =>
        /\ Cardinality(StepsOf("domain")) <= 1
        /\ Cardinality(StepsOf("targeted")) <= 4
        /\ Cardinality(StepsOf("broad")) <= 3
        /\ \A i \in Searches : \A j \in Searches :
              i < j => f_call.log[i].query # f_call.log[j].query
        /\ \A i \in Searches :
              NoAnswer(AnswerAt(i)) =>
                  IF i < Len(f_call.log)
                  THEN /\ i + 1 \in Searches
                       /\ f_call.log[i + 1].query # f_call.log[i].query
                  ELSE f_call.ret = NoResult

\* C25 witness: a call whose third targeted query failed issued all four
\* targeted and all three broad queries, each once, and returned nothing
C25_Witness ==
    /\ f_call.called
    /\ f_call.env.targeted[3] = SearchFailed
    /\ Cardinality(StepsOf("domain")) = 1
    /\ Cardinality(StepsOf("targeted")) = 4 /\ Cardinality(StepsOf("broad")) = 3
    /\ Cardinality({f_call.log[i].query : i \in Searches}) = 7
    /\ f_call.ret = NoResult

-----------------------------------------------------------------------------
(* Claims about what a cached answer depends on                            *)

\* the requests with the content and the url of the latest request
SameContentAndUrl ==
    {job_request \in Requests :
        /\ job_request.content = a_call.request.content
        /\ job_request.url = a_call.request.url}

\* what /analyze gives for a request made in the place of the latest one
InPlace(job_request) ==
    analyze_job_posting(job_request, a_call.world, a_call.cache_before,
                        a_call.store_before, a_call.at)

\* C26: the response to a cache hit depends on content and url alone.  Of
\* two requests with the same content and url and different rawHTML, title
\* or companyGuess, the second receives what was stored for the first, as
\* long as the entry has not expired: its own rawHTML and hints have no
\* effect on the response.
C26_HitDependsOnContentAndUrl ==
    CacheHit =>
        \A job_request \in SameContentAndUrl :
            \A out \in InPlace(job_request) :
                /\ out.status = 200
                /\ out.response = a_call.response
                /\ out.cache = cache /\ out.store = store

\* C26 witness: a request without markup and with hints finds the entry
\* of a request with markup, and receives the result of the parser
C26_Witness ==
    /\ CacheHit
    /\ a_call.request.rawHTML = None
    /\ a_call.request.title = "Staff Engineer" /\ a_call.request.companyGuess = "Globex"
    /\ Cardinality(SameContentAndUrl) = 2
    /\ a_call.response.confidence_scores = [parsing |-> 95]

-----------------------------------------------------------------------------
(* Claims about the domain that is stored with a career page               *)

\* what the domain lookup gives in an environment: the domain of a 200
\* response, nothing when the lookup raised or answered otherwise
LookupGives(env) ==
    IF ~env.clearbit.raised /\ env.clearbit.status = 200 THEN env.clearbit.domain
    ELSE None

\* the hosts of the links of the search results
link_hosts == [link \in {item.link : item \in SearchItems} \ {""} |-> Hostname(link)]

\* C27: the company_domain that is stored is the output of the domain
\* lookup (absent when the lookup failed), not the domain of the result
\* returned to the caller, which for a result of the broad search is the
\* host of the career url.  A later call answered from the store returns
\* the stored company_domain as its domain, with career_url, source and
\* confidence_score as they were stored.
C27_StoredDomainIsLookupOutput ==
    (f_call.called /\ ReturnedResult) =>
        /\ ~StopsAtCache =>
              /\ \A row \in StoredUnderName(store) :
                    row.company_domain = LookupGives(f_call.env)
              /\ f_call.ret.source = "broad_google" =>
                    f_call.ret.domain = link_hosts[f_call.ret.career_url]
              /\ f_call.ret.source = "targeted_google_clearbit" =>
                    f_call.ret.domain = LookupGives(f_call.env)
        /\ StopsAtCache =>
              \E row \in FoundInStore :
                  /\ f_call.ret.domain = row.company_domain
                  /\ f_call.ret.career_url = row.career_url
                  /\ f_call.ret.source = row.source
                  /\ f_call.ret.confidence_score = row.confidence_score
                  /\ \E env \in Envs : row.company_domain = LookupGives(env)

\* C27 witness: a call answered from the store returns a page of the
\* broad search without domain, the lookup having failed when the page was
\* found, whereas the call that found it returned the host of the page
C27_Witness ==
    /\ f_call.called /\ ReturnedResult /\ StopsAtCache
    /\ f_call.ret.source = "broad_google"
    /\ f_call.ret.domain = None
    /\ link_hosts[f_call.ret.career_url] = "jobs.acme.io"

-----------------------------------------------------------------------------
(* Claims about the threshold of the targeted search                       *)

\* the targeted queries whose answer holds a result that the scorer does not
\* reject: a url that is not empty and not of a job board, with a career
\* keyword in url or title
Acceptable ==
    {k \in 1..4 :
        \E i \in 1..Len(f_call.env.targeted[k].items) :
            ~traits[f_call.env.targeted[k].items[i]].rejected}

\* the latest call reached the targeted search
TargetedRan ==
    f_call.called /\ ~StopsAtCache /\ Truthy(LookupGives(f_call.env))

\* C28: in targeted mode every candidate that the scorer does not reject
\* scores at least 30, the flat bonus, so that the threshold of 30 excludes
\* none of them: the first targeted query whose results hold a url that is
\* not of a job board and has a career keyword in url or title ends the
\* search, with a targeted result.
C28_TargetedThresholdExcludesNone ==
    TargetedRan =>
        /\ \A item \in ItemsAnswered :
              ~traits[item].rejected =>
                  item_scores[item, f_call.company_name, TRUE] >= 30
        /\ Acceptable # {} =>
              /\ Cardinality(StepsOf("targeted")) = MinOf(Acceptable)
              /\ StepsOf("broad") = {}
              /\ ReturnedResult => f_call.ret.source = "targeted_google_clearbit"
              /\ f_call.ret # NoResult

\* C28 witness: the third targeted query was the first to be answered
\* with an acceptable page, one that earns the flat bonus alone; the search
\* ended there and the page was returned with score 30
C28_Witness ==
    /\ TargetedRan
    /\ Acceptable = {3, 4}
    /\ Cardinality(StepsOf("targeted")) = 3
    /\ ReturnedResult
    /\ f_call.ret.source = "targeted_google_clearbit"
    /\ f_call.ret.confidence_score = 30

-----------------------------------------------------------------------------
(* Claims about faults of the services behind find_career_page             *)

\* the searches of the latest call held a result that the scorer accepts
PageFound ==
    \/ \E k \in StepsOf("targeted") :
          \E i \in 1..Len(AnswerAt(k).items) :
              item_scores[AnswerAt(k).items[i], f_call.company_name, TRUE] >= 30
    \/ \E k \in StepsOf("broad") :
          \E i \in 1..Len(AnswerAt(k).items) :
              item_scores[AnswerAt(k).items[i], f_call.company_name, FALSE] >= 50

\* the select of the latest call failed, the upsert of the latest call failed
ReadFault == ~f_call.force_refresh /\ ~f_call.env.store_read
WriteFault == ~StopsAtCache /\ PageFound /\ ~f_call.env.store_write

\* C29: a fault of the store leaves find_career_page as an exception, while
\* a fault of the domain lookup or of a search counts as "nothing" and the
\* call goes on.  After a fault of the cache lookup no domain lookup and no
\* search is made; after a fault of the upsert the page that the search
\* found is not returned.
C29_StoreFaultsPropagate ==
    f_call.called =>
        /\ ReadFault =>
              /\ f_call.ret = StoreError
              /\ f_call.log = <<Called("cache")>>
              /\ store = f_call.before
        /\ WriteFault =>
              /\ f_call.ret = StoreError
              /\ f_call.log[Len(f_call.log)] = Called("persist")
              /\ store = f_call.before
        /\ f_call.ret = StoreError => (ReadFault \/ WriteFault)
        /\ (~StopsAtCache /\ f_call.env.clearbit.raised) =>
              /\ StepsOf("targeted") = {}
              /\ StepsOf("broad") # {}
        /\ \A k \in Searches :
              ~AnswerAt(k).ok =>
                  \/ k < Len(f_call.log)
                     /\ f_call.log[k + 1].step \in {"targeted", "broad"}
                  \/ k = Len(f_call.log) /\ f_call.ret = NoResult

\* C29 witness: the targeted search found a page, the upsert failed and
\* the call ended with the exception of the store
C29_Witness ==
    /\ f_call.called /\ WriteFault
    /\ StepsOf("targeted") # {}
    /\ f_call.ret = StoreError
    /\ f_call.log[Len(f_call.log)] = Called("persist")

-----------------------------------------------------------------------------
(* Claims about what the hints of a request do not change                  *)

\* what the analyzer finds in the content of the latest request
InContent == extracted[a_call.request.content]

\* the keys of additional_details that echo the hints
EchoKeys == {"page_title", "company_guess"}

\* C30: /analyze never hands the title and the companyGuess of the caller
\* to the analyzer.  The backfill of job_title and company_name and the
\* setting of companyUrl come after the result was built and leave
\* confidence_scores and additional_details as the extraction gave them:
\* the scores of company_name and job_title tell what the content held,
\* whatever the hints, and additional_details has neither page_title nor
\* company_guess.
C30_HintsNeverReachAnalyzer ==
    Extracting =>
        /\ a_call.response.confidence_scores = Extraction.confidence_scores
        /\ a_call.response.additional_details = Extraction.additional_details
        /\ Ran("analyze") = 1 =>
              /\ a_call.response.confidence_scores.company_name =
                    (IF Truthy(InContent.company_name) THEN 80 ELSE 0)
              /\ a_call.response.confidence_scores.job_title =
                    (IF Truthy(InContent.job_title) THEN 90 ELSE 0)
              /\ EchoKeys \cap DOMAIN a_call.response.additional_details = {}

\* C30 witness: the analyzer found no company in the content, and the
\* response names the company of the caller's guess with confidence 0 and
\* without the echo of the guess
C30_Witness ==
    /\ Extracting /\ Ran("analyze") = 1
    /\ ~Truthy(InContent.company_name)
    /\ a_call.request.companyGuess = "acme inc"
    /\ a_call.response.company_name = "acme inc"
    /\ a_call.response.confidence_scores.company_name = 0
    /\ "company_guess" \notin DOMAIN a_call.response.additional_details

====
